---- MODULE Spec2Model ----
(***************************************************************************)
(* Model of app/core/queue.py: InferenceQueue, an asyncio.Queue of bounded *)
(* size served by a pool of worker tasks; of app/core/cache.py: TTLCache;  *)
(* and of the chat routes that use the queue.                              *)
(*                                                                         *)
(* One action is one run of a task between two suspension points of the    *)
(* asyncio event loop: the code between two awaits that really suspend     *)
(* runs without interleaving.  asyncio.Lock.acquire() does not suspend     *)
(* when the lock is free, and _lock is never held across an await, so the  *)
(* two "async with self._lock" blocks belong to the step they appear in.   *)
(*                                                                         *)
(* asyncio.wait_for(self._queue.get(), 1.0) follows its contract, which is *)
(* what CPython >= 3.12 implements: get() is awaited inline, so the item   *)
(* leaves the queue in the very step in which the worker receives it, and  *)
(* a cancel() or a timeout that arrives first leaves the item queued.      *)
(* (CPython <= 3.11 runs get() in a task of its own and hands the item     *)
(* over one loop iteration later; that hand-over is not modelled.)         *)
(*                                                                         *)
(* A step that the code runs without suspending may be split in two here   *)
(* (end of one item, take of the next) when the state in between is one    *)
(* the loop can be in anyway: a waiting worker whose getter has been woken.*)
(***************************************************************************)
EXTENDS Naturals, Integers, Sequences, FiniteSets

(* ---- bounds of the model ---- *)
MaxItems == 3
MaxScenarioItems == 4
MaxConcurrent == 2
MaxQueueSize == 2
MaxTasks == 3
MaxKeys == 2
MaxLruKeys == 5
MaxCacheSize == 2
MaxLruSize == 4
MaxValues == 1
MaxTtl == 1
MaxClock == 2
MaxGets == 3
MaxStreams == 2
MaxClients == 2
MaxThreads == 2
MaxTokens == 1
MaxRate == 1
MaxCost == 1
MaxSources == 2
MaxLimiterClock == 1
MaxChecks == 12
MaxBurstClock == 3
MaxRouteClock == 3

\* The units a token is counted in: four to a token.
TokenUnit == 4

\* The readings of the clock in a second, where requests arrive between the
\* whole seconds.
TicksPerSecond == 2

\* The larger of two numbers.
Max(a, b) ==
  IF a >= b THEN a ELSE b

ItemIds == 1..Max(MaxItems, MaxScenarioItems)
TaskIds == 1..MaxTasks
Keys == 1..MaxKeys
LruKeys == 1..MaxLruKeys
Values == 1..MaxValues
StreamIds == 1..MaxStreams
Clients == 1..MaxClients
Threads == 1..MaxThreads
Sources == 1..MaxSources

VARIABLES
  max_concurrent,   \* InferenceQueue._max_concurrent
  max_queue_size,   \* InferenceQueue._max_queue_size
  queue,            \* InferenceQueue._queue: ids of the pending QueueItems, head first
  running,          \* InferenceQueue._running
  workers,          \* InferenceQueue._workers: the worker tasks the queue tracks
  active_tasks,     \* InferenceQueue._active_tasks
  total_processed,  \* InferenceQueue._total_processed
  total_errors,     \* InferenceQueue._total_errors
  task,             \* the worker tasks created so far, in the order of their creation
  future,           \* QueueItem.future of each item
  caller,           \* the submit() call of each item
  stopping,         \* the stop() call suspended in asyncio.gather, if any
  startOrder,       \* history: the items in the order their work was started
  starts,           \* history: number of start() calls made, modulo 2
  max_size,         \* TTLCache._max_size
  ttl_seconds,      \* TTLCache._ttl_seconds
  cache,            \* TTLCache._cache: the entries in the order of the OrderedDict
  hits,             \* TTLCache._hits
  misses,           \* TTLCache._misses
  now,              \* the reading of time.time()
  last,             \* the last call made on the cache and what it returned
  accessOrder,      \* history: the stored keys in the order of their last get hit or set
  insertOrder,      \* history: the stored keys in the order of their insertion
  http,             \* the HTTP response to the chat request of each item
  stream,           \* the generation of each streaming chat request
  ref,              \* history: the cache as it would be had cleanup_expired never run
  refLast,          \* history: what the last get returns from ref
  store,            \* the vector store: the sources whose chunks it holds
  max_tokens,       \* RateLimiter._max_tokens
  refill_rate,      \* RateLimiter._refill_rate, in token units per second
  window_seconds,   \* RateLimiter._window_seconds
  buckets,          \* RateLimiter._buckets: the bucket of each client key, if any
  reply,            \* the last call made on the limiter and what it returned
  lock,             \* RateLimiter._lock: the thread that holds it, or 0
  thread,           \* the threads that are inside RateLimiter.check
  calls,            \* history: the check calls made, with their time and outcome
  refBuckets,       \* the buckets of a limiter that is given the check calls only
  refOk,            \* what that limiter returned from the last check
  req,              \* req[i]: chat request i, where it is in its route and what it did
  answered          \* the response cache holds the answer to the question

queueVars ==
  <<max_concurrent, max_queue_size, queue, running, workers, active_tasks,
    total_processed, total_errors, task, future, caller, stopping,
    startOrder, starts>>

cacheVars ==
  <<max_size, ttl_seconds, cache, hits, misses, now, last, accessOrder, insertOrder,
    ref, refLast>>

\* The history of the cache.
histVars ==
  <<accessOrder, insertOrder, ref, refLast>>

storeVars ==
  <<store>>

\* now, the reading of time.time(), is listed with the cache.
limiterVars ==
  <<max_tokens, refill_rate, window_seconds, buckets, reply, lock, thread,
    calls, refBuckets, refOk>>

\* What is recorded beside the limiter.
limHist ==
  <<calls, refBuckets, refOk>>

chatVars ==
  <<http, stream, req, answered>>

\* What no method of InferenceQueue touches.
nonQueueVars ==
  <<cacheVars, chatVars, storeVars, limiterVars>>

\* What no method of TTLCache touches.
nonCacheVars ==
  <<queueVars, chatVars, storeVars, limiterVars>>

\* What the chat routes touch only through the queue.
nonChatVars ==
  <<queueVars, cacheVars, storeVars, limiterVars>>

\* What no method of RateLimiter touches.
nonLimiterVars ==
  <<queueVars, cacheVars, chatVars, storeVars>>

vars ==
  <<queueVars, cacheVars, chatVars, storeVars, limiterVars>>

(* ---- values ---- *)
NoTask ==
  [pc |-> "free", item |-> 0, cancelReq |-> FALSE]

DeadTask ==
  [pc |-> "done", item |-> 0, cancelReq |-> FALSE]

NoFuture ==
  [st |-> "none", val |-> 0]

NoCaller ==
  [st |-> "none", val |-> 0]

IdleStop ==
  [pc |-> "idle", snap |-> {}]

\* The marker that the work of item i returns, or carries in the error it raises.
Marker(i) ==
  i

\* The worker tasks created so far; asyncio.create_task numbers them 1, 2, ...
Created ==
  {t \in TaskIds : task[t].pc # "free"}

\* asyncio.Future.done()
Done(f) ==
  f.st \in {"result", "exception", "cancelled"}

\* How many times x occurs in seq.
Count(seq, x) ==
  Cardinality({k \in 1..Len(seq) : seq[k] = x})

\* What get() returns for a miss.
None ==
  0

\* No call has been made on the cache yet.
NoCall ==
  [op |-> "none", key |-> 0, val |-> 0, flag |-> FALSE]

\* No response has been sent yet.
NoResponse ==
  [status |-> 0, exc |-> "none", detail |-> "none"]

\* No Retry-After header.
NoHeader ==
  [present |-> FALSE, seconds |-> 0]

\* A request that has not arrived.
NoRequest ==
  [pc |-> "none", client |-> 0, route |-> "none", at |-> 0, header |-> NoHeader,
   item |-> 0, did |-> {}]

\* A cache that nothing uses: constructed, and no call made on it.
CacheUnused ==
  /\ max_size = 1
  /\ ttl_seconds = 1
  /\ cache = <<>>
  /\ hits = 0
  /\ misses = 0
  /\ now = 0
  /\ last = NoCall
  /\ accessOrder = <<>>
  /\ insertOrder = <<>>
  /\ ref = <<>>
  /\ refLast = None

\* A vector store that nothing uses: no source ingested.
StoreUnused ==
  store = {}

\* No thread is inside RateLimiter.check.
NoThread ==
  [pc |-> "out", key |-> 0, cost |-> 0, seen |-> 0, result |-> FALSE]

\* No call has been made on the limiter yet.
NoReply ==
  [op |-> "none", key |-> 0, ok |-> FALSE, raised |-> FALSE, num |-> 0, den |-> 1]

\* No bucket: the client key is not in the dict.
NoBucket ==
  [present |-> FALSE, tokens |-> 0, last_refill |-> 0]

\* A limiter that nothing uses: constructed, and no call made on it.
LimiterUnused ==
  /\ max_tokens = 1
  /\ refill_rate = 1
  /\ window_seconds = 1
  /\ buckets = [c \in Clients |-> NoBucket]
  /\ reply = NoReply
  /\ lock = 0
  /\ thread = [t \in Threads |-> NoThread]
  /\ calls = <<>>
  /\ refBuckets = [c \in Clients |-> NoBucket]
  /\ refOk = TRUE

\* No chat request has reached the routes.
ChatUnused ==
  /\ http = [i \in ItemIds |-> NoResponse]
  /\ stream = [s \in StreamIds |-> "none"]
  /\ req = [i \in ItemIds |-> NoRequest]
  /\ answered = FALSE

(* ---- construction ---- *)
Init ==
  /\ CacheUnused
  /\ ChatUnused
  /\ StoreUnused
  /\ LimiterUnused
  /\ max_concurrent \in 1..MaxConcurrent
  /\ max_queue_size \in 1..MaxQueueSize
  /\ queue = <<>>
  /\ running = FALSE
  /\ workers = {}
  /\ active_tasks = 0
  /\ total_processed = 0
  /\ total_errors = 0
  /\ task = [t \in TaskIds |-> NoTask]
  /\ future = [i \in ItemIds |-> NoFuture]
  /\ caller = [i \in ItemIds |-> NoCaller]
  /\ stopping = IdleStop
  /\ startOrder = <<>>
  /\ starts = 0

(* ---- InferenceQueue.start ---- *)
\* As Start, without the "if self._running: return".
StartAlways ==
  /\ starts' = (starts + 1) % 2
  /\ Cardinality(Created) + max_concurrent <= MaxTasks
  /\ LET new == (Cardinality(Created) + 1)..(Cardinality(Created) + max_concurrent)
     IN /\ task' = [t \in TaskIds |->
                      IF t \in new
                        THEN [pc |-> "new", item |-> 0, cancelReq |-> FALSE]
                        ELSE task[t]]
        /\ workers' = workers \cup new
  /\ running' = TRUE
  /\ UNCHANGED <<nonQueueVars, max_concurrent, max_queue_size, queue, active_tasks,
                 total_processed, total_errors, future, caller,
                 stopping, startOrder>>

Start ==
  /\ starts' = (starts + 1) % 2
  /\ IF running
       THEN UNCHANGED <<nonQueueVars, max_concurrent, max_queue_size, queue, running, workers,
                        active_tasks, total_processed, total_errors, task,
                        future, caller, stopping, startOrder>>
       ELSE /\ Cardinality(Created) + max_concurrent <= MaxTasks
            /\ LET new == (Cardinality(Created) + 1)..(Cardinality(Created) + max_concurrent)
               IN /\ task' = [t \in TaskIds |->
                                IF t \in new
                                  THEN [pc |-> "new", item |-> 0, cancelReq |-> FALSE]
                                  ELSE task[t]]
                  /\ workers' = workers \cup new
            /\ running' = TRUE
            /\ UNCHANGED <<nonQueueVars, max_concurrent, max_queue_size, queue, active_tasks,
                           total_processed, total_errors, future, caller,
                           stopping, startOrder>>

(* ---- InferenceQueue.stop ---- *)
\* Up to the await of gather: clear the flag and cancel every tracked worker.
\* gather() of no task is already done, so stop() then runs to its end.
\* stop() calls do not overlap each other: lifespan is their only caller.
Stop ==
  /\ stopping.pc = "idle"
  /\ running' = FALSE
  /\ IF workers = {}
       THEN UNCHANGED <<workers, task, stopping>>
       ELSE /\ task' = [t \in TaskIds |->
                          IF t \in workers /\ task[t].pc # "done"
                            THEN [task[t] EXCEPT !.cancelReq = TRUE]
                            ELSE task[t]]
            /\ stopping' = [pc |-> "gather", snap |-> workers]
            /\ UNCHANGED workers
  /\ UNCHANGED <<nonQueueVars, max_concurrent, max_queue_size, queue, active_tasks,
                 total_processed, total_errors, future, caller, startOrder, starts>>

\* gather returns once every task it was given has finished; then _workers.clear().
StopEnd ==
  /\ stopping.pc = "gather"
  /\ \A t \in stopping.snap : task[t].pc = "done"
  /\ workers' = {}
  /\ stopping' = IdleStop
  /\ UNCHANGED <<nonQueueVars, max_concurrent, max_queue_size, queue, running, active_tasks, task,
                 total_processed, total_errors, future, caller, startOrder, starts>>

(* ---- InferenceQueue._worker ---- *)
\* The worker leaves its loop: the task is finished.
Exit(t) ==
  [task EXCEPT ![t] = DeadTask]

\* First step of a worker task: a task cancelled before it ran never runs;
\* otherwise test "while self._running" and suspend in wait_for.
WorkerBegin(t) ==
  /\ task[t].pc = "new"
  /\ task' = IF task[t].cancelReq \/ ~running
               THEN Exit(t)
               ELSE [task EXCEPT ![t].pc = "waiting"]
  /\ UNCHANGED <<nonQueueVars, max_concurrent, max_queue_size, queue, running, workers,
                 active_tasks, total_processed, total_errors, future, caller,
                 stopping, startOrder, starts>>

\* As Take, but of the item queued last.
TakeLast(t) ==
  /\ task[t].pc = "waiting"
  /\ ~task[t].cancelReq
  /\ queue # <<>>
  /\ task' = [task EXCEPT ![t].pc = "working", ![t].item = queue[Len(queue)]]
  /\ queue' = SubSeq(queue, 1, Len(queue) - 1)
  /\ active_tasks' = active_tasks + 1
  /\ startOrder' = Append(startOrder, queue[Len(queue)])
  /\ UNCHANGED <<nonQueueVars, max_concurrent, max_queue_size, running, workers,
                 total_processed, total_errors, future, caller, stopping, starts>>

\* wait_for returns the head of the queue; "async with self._lock" adds one to
\* active_tasks; the work is started and the worker suspends in it.
Take(t) ==
  /\ task[t].pc = "waiting"
  /\ ~task[t].cancelReq
  /\ queue # <<>>
  /\ task' = [task EXCEPT ![t].pc = "working", ![t].item = Head(queue)]
  /\ queue' = Tail(queue)
  /\ active_tasks' = active_tasks + 1
  /\ startOrder' = Append(startOrder, Head(queue))
  /\ UNCHANGED <<nonQueueVars, max_concurrent, max_queue_size, running, workers,
                 total_processed, total_errors, future, caller, stopping, starts>>

\* wait_for times out on an empty get: continue, and test "while self._running".
Timeout(t) ==
  /\ task[t].pc = "waiting"
  /\ ~task[t].cancelReq
  /\ task' = IF running THEN task ELSE Exit(t)
  /\ UNCHANGED <<nonQueueVars, max_concurrent, max_queue_size, queue, running, workers,
                 active_tasks, total_processed, total_errors, future, caller,
                 stopping, startOrder, starts>>

\* CancelledError out of wait_for: break.
CancelWaiting(t) ==
  /\ task[t].pc = "waiting"
  /\ task[t].cancelReq
  /\ task' = Exit(t)
  /\ UNCHANGED <<nonQueueVars, max_concurrent, max_queue_size, queue, running, workers,
                 active_tasks, total_processed, total_errors, future, caller,
                 stopping, startOrder, starts>>

\* End of an iteration: back to "while self._running".
Loop(t) ==
  IF running
    THEN [task EXCEPT ![t] = [pc |-> "waiting", item |-> 0, cancelReq |-> FALSE]]
    ELSE Exit(t)

\* As WorkOk, but the result goes to the oldest future still pending.
WorkOkOldest(t) ==
  /\ task[t].pc = "working"
  /\ ~task[t].cancelReq
  /\ LET i == task[t].item
         pending == {j \in ItemIds : future[j].st = "pending"}
     IN IF pending = {}
          THEN /\ total_errors' = total_errors + 1
               /\ UNCHANGED <<future, total_processed>>
          ELSE /\ LET j == CHOOSE x \in pending : \A y \in pending : x <= y
                  IN future' = [future EXCEPT ![j] = [st |-> "result", val |-> Marker(i)]]
               /\ total_processed' = total_processed + 1
               /\ UNCHANGED total_errors
  /\ active_tasks' = active_tasks - 1
  /\ task' = Loop(t)
  /\ UNCHANGED <<nonQueueVars, max_concurrent, max_queue_size, queue, running, workers,
                 caller, stopping, startOrder, starts>>

\* As WorkOk, but the InvalidStateError of set_result leaves the worker loop.
WorkOkUncaught(t) ==
  /\ task[t].pc = "working"
  /\ ~task[t].cancelReq
  /\ LET i == task[t].item
     IN IF Done(future[i])
          THEN /\ task' = Exit(t)
               /\ UNCHANGED <<future, total_processed, total_errors>>
          ELSE /\ future' = [future EXCEPT ![i] = [st |-> "result", val |-> Marker(i)]]
               /\ total_processed' = total_processed + 1
               /\ task' = Loop(t)
               /\ UNCHANGED total_errors
  /\ active_tasks' = active_tasks - 1
  /\ UNCHANGED <<nonQueueVars, max_concurrent, max_queue_size, queue, running, workers,
                 caller, stopping, startOrder, starts>>

\* The work returns: set_result, which raises InvalidStateError on a future
\* that is already done; that error is caught by "except Exception".
WorkOk(t) ==
  /\ task[t].pc = "working"
  /\ ~task[t].cancelReq
  /\ LET i == task[t].item
     IN IF Done(future[i])
          THEN /\ total_errors' = total_errors + 1
               /\ UNCHANGED <<future, total_processed>>
          ELSE /\ future' = [future EXCEPT ![i] = [st |-> "result", val |-> Marker(i)]]
               /\ total_processed' = total_processed + 1
               /\ UNCHANGED total_errors
  /\ active_tasks' = active_tasks - 1
  /\ task' = Loop(t)
  /\ UNCHANGED <<nonQueueVars, max_concurrent, max_queue_size, queue, running, workers,
                 caller, stopping, startOrder, starts>>

\* As WorkErr, without the "if not item.future.done()" guard.
WorkErrUnguarded(t) ==
  /\ task[t].pc = "working"
  /\ ~task[t].cancelReq
  /\ LET i == task[t].item
     IN future' = [future EXCEPT ![i] = [st |-> "exception", val |-> Marker(i)]]
  /\ total_errors' = total_errors + 1
  /\ active_tasks' = active_tasks - 1
  /\ task' = Loop(t)
  /\ UNCHANGED <<nonQueueVars, max_concurrent, max_queue_size, queue, running, workers,
                 total_processed, caller, stopping, startOrder, starts>>

\* As WorkErr, but the error is raised again and leaves the worker loop.
WorkErrReraise(t) ==
  /\ task[t].pc = "working"
  /\ ~task[t].cancelReq
  /\ LET i == task[t].item
     IN future' = IF Done(future[i])
                    THEN future
                    ELSE [future EXCEPT ![i] = [st |-> "exception", val |-> Marker(i)]]
  /\ total_errors' = total_errors + 1
  /\ active_tasks' = active_tasks - 1
  /\ task' = Exit(t)
  /\ UNCHANGED <<nonQueueVars, max_concurrent, max_queue_size, queue, running, workers,
                 total_processed, caller, stopping, startOrder, starts>>

\* The work raises an Exception: count it, set_exception unless the future is done.
WorkErr(t) ==
  /\ task[t].pc = "working"
  /\ ~task[t].cancelReq
  /\ LET i == task[t].item
     IN future' = IF Done(future[i])
                    THEN future
                    ELSE [future EXCEPT ![i] = [st |-> "exception", val |-> Marker(i)]]
  /\ total_errors' = total_errors + 1
  /\ active_tasks' = active_tasks - 1
  /\ task' = Loop(t)
  /\ UNCHANGED <<nonQueueVars, max_concurrent, max_queue_size, queue, running, workers,
                 total_processed, caller, stopping, startOrder, starts>>

\* CancelledError thrown into the work: not an Exception, so only the finally
\* block runs and the error leaves the worker; the future is not touched.
CancelWorking(t) ==
  /\ task[t].pc = "working"
  /\ task[t].cancelReq
  /\ active_tasks' = active_tasks - 1
  /\ task' = Exit(t)
  /\ UNCHANGED <<nonQueueVars, max_concurrent, max_queue_size, queue, running, workers,
                 total_processed, total_errors, future, caller, stopping,
                 startOrder, starts>>

(* ---- InferenceQueue.submit ---- *)
FullOffByOne ==
  Len(queue) > max_queue_size

\* asyncio.Queue.full() for maxsize > 0
Full ==
  Len(queue) >= max_queue_size

\* As Submit, with "await self._queue.put(item)": a full queue suspends the caller.
SubmitBlocking(i) ==
  /\ caller[i].st = "none"
  /\ \A j \in ItemIds : j < i => caller[j].st # "none"
  /\ IF Full
       THEN /\ caller' = [caller EXCEPT ![i] = [st |-> "waiting", val |-> 0]]
            /\ UNCHANGED <<queue, future>>
       ELSE /\ queue' = Append(queue, i)
            /\ future' = [future EXCEPT ![i] = [st |-> "pending", val |-> 0]]
            /\ caller' = [caller EXCEPT ![i] = [st |-> "waiting", val |-> 0]]
  /\ UNCHANGED <<nonQueueVars, max_concurrent, max_queue_size, running, workers, active_tasks,
                 total_processed, total_errors, task, stopping, startOrder, starts>>

\* As Submit, but a rejection is counted in total_errors.
SubmitCountsRejection(i) ==
  /\ caller[i].st = "none"
  /\ \A j \in ItemIds : j < i => caller[j].st # "none"
  /\ IF Full
       THEN /\ caller' = [caller EXCEPT ![i] = [st |-> "queue_full", val |-> 0]]
            /\ total_errors' = total_errors + 1
            /\ UNCHANGED <<queue, future>>
       ELSE /\ queue' = Append(queue, i)
            /\ future' = [future EXCEPT ![i] = [st |-> "pending", val |-> 0]]
            /\ caller' = [caller EXCEPT ![i] = [st |-> "waiting", val |-> 0]]
            /\ UNCHANGED total_errors
  /\ UNCHANGED <<nonQueueVars, max_concurrent, max_queue_size, running, workers, active_tasks,
                 total_processed, task, stopping, startOrder, starts>>

\* Up to "await future": put_nowait raises QueueFull, or the item is queued.
Submit(i) ==
  /\ caller[i].st = "none"
  /\ \A j \in ItemIds : j < i => caller[j].st # "none"
  /\ IF Full
       THEN /\ caller' = [caller EXCEPT ![i] = [st |-> "queue_full", val |-> 0]]
            /\ UNCHANGED <<queue, future>>
       ELSE /\ queue' = Append(queue, i)
            /\ future' = [future EXCEPT ![i] = [st |-> "pending", val |-> 0]]
            /\ caller' = [caller EXCEPT ![i] = [st |-> "waiting", val |-> 0]]
  /\ UNCHANGED <<nonQueueVars, max_concurrent, max_queue_size, running, workers, active_tasks,
                 total_processed, total_errors, task, stopping, startOrder, starts>>

\* "return await future": the caller gets the result or the stored error.
SubmitReturn(i) ==
  /\ caller[i].st = "waiting"
  /\ future[i].st \in {"result", "exception"}
  /\ caller' = [caller EXCEPT ![i] =
                  [st |-> IF future[i].st = "result" THEN "returned" ELSE "raised",
                   val |-> future[i].val]]
  /\ UNCHANGED <<nonQueueVars, max_concurrent, max_queue_size, queue, running, workers,
                 active_tasks, total_processed, total_errors, task, future,
                 stopping, startOrder, starts>>

\* The task awaiting submit() is cancelled: awaiting a future cancels it.
SubmitCancelled(i) ==
  /\ caller[i].st = "waiting"
  /\ caller' = [caller EXCEPT ![i] = [st |-> "cancelled", val |-> 0]]
  /\ future' = IF Done(future[i])
                 THEN future
                 ELSE [future EXCEPT ![i] = [st |-> "cancelled", val |-> 0]]
  /\ UNCHANGED <<nonQueueVars, max_concurrent, max_queue_size, queue, running, workers,
                 active_tasks, total_processed, total_errors, task, stopping,
                 startOrder, starts>>

(* ---- the system ---- *)
Next ==
  \/ Start
  \/ Stop
  \/ StopEnd
  \/ \E t \in TaskIds : WorkerBegin(t)
  \/ \E t \in TaskIds : Take(t)
  \/ \E t \in TaskIds : Timeout(t)
  \/ \E t \in TaskIds : CancelWaiting(t)
  \/ \E t \in TaskIds : WorkOk(t)
  \/ \E t \in TaskIds : WorkErr(t)
  \/ \E t \in TaskIds : CancelWorking(t)
  \/ \E i \in 1..MaxItems : Submit(i)
  \/ \E i \in ItemIds : SubmitReturn(i)

\* The class under any calls of start, stop and submit.
Spec ==
  Init /\ [][Next]_vars

\* The event loop runs every task that is ready, and every work comes to an end;
\* nothing obliges a caller to call start, stop or submit.
Fairness ==
  /\ \A t \in TaskIds :
       /\ WF_vars(WorkerBegin(t))
       /\ WF_vars(Take(t))
       /\ WF_vars(Timeout(t))
       /\ WF_vars(CancelWaiting(t))
       /\ WF_vars(WorkOk(t) \/ WorkErr(t))
       /\ WF_vars(CancelWorking(t))
  /\ WF_vars(StopEnd)
  /\ \A i \in ItemIds : WF_vars(SubmitReturn(i))

(* ---- the application between startup and shutdown ---- *)
\* The started queue while no caller is cancelled and stop() is not called.
NextServing ==
  \/ \E t \in TaskIds : WorkerBegin(t)
  \/ \E t \in TaskIds : Take(t)
  \/ \E t \in TaskIds : WorkOk(t)
  \/ \E t \in TaskIds : WorkErr(t)
  \/ \E i \in 1..MaxItems : Submit(i)
  \/ \E i \in ItemIds : SubmitReturn(i)


\* lifespan: the queue is constructed and start() has been awaited once.
\* While _running is set a timeout of wait_for changes nothing, and start() is
\* not called again.
InitRunning ==
  /\ CacheUnused
  /\ ChatUnused
  /\ StoreUnused
  /\ LimiterUnused
  /\ max_concurrent \in 1..MaxConcurrent
  /\ max_queue_size \in 1..MaxQueueSize
  /\ queue = <<>>
  /\ running = TRUE
  /\ workers = 1..max_concurrent
  /\ active_tasks = 0
  /\ total_processed = 0
  /\ total_errors = 0
  /\ task = [t \in TaskIds |->
               IF t <= max_concurrent
                 THEN [pc |-> "new", item |-> 0, cancelReq |-> FALSE]
                 ELSE NoTask]
  /\ future = [i \in ItemIds |-> NoFuture]
  /\ caller = [i \in ItemIds |-> NoCaller]
  /\ stopping = IdleStop
  /\ startOrder = <<>>
  /\ starts = 1

NextRunning ==
  \/ \E t \in TaskIds : WorkerBegin(t)
  \/ \E t \in TaskIds : Take(t)
  \/ \E t \in TaskIds : WorkOk(t)
  \/ \E t \in TaskIds : WorkErr(t)
  \/ \E i \in 1..MaxItems : Submit(i)
  \/ \E i \in ItemIds : SubmitReturn(i)
  \/ \E i \in ItemIds : SubmitCancelled(i)

RunningSpec ==
  InitRunning /\ [][NextRunning]_vars

\* lifespan up to and including shutdown: start() once, then any submits, then
\* stop(); the event loop keeps running the tasks that are ready.
NextLifespan ==
  \/ \E t \in TaskIds : WorkerBegin(t)
  \/ \E t \in TaskIds : Take(t)
  \/ \E t \in TaskIds : WorkOk(t)
  \/ \E t \in TaskIds : WorkErr(t)
  \/ \E t \in TaskIds : CancelWaiting(t)
  \/ \E t \in TaskIds : CancelWorking(t)
  \/ \E i \in 1..MaxItems : Submit(i)
  \/ \E i \in ItemIds : SubmitReturn(i)
  \/ \E i \in ItemIds : SubmitCancelled(i)
  \/ Stop
  \/ StopEnd

LifespanSpec ==
  InitRunning /\ [][NextLifespan]_vars /\ Fairness

ServingSpec ==
  InitRunning /\ [][NextServing]_vars /\ Fairness

(* ---- the backpressure scenario: max_queue_size=2, max_concurrent=1 ---- *)
InitScenario ==
  /\ InitRunning
  /\ max_concurrent = 1
  /\ max_queue_size = 2

NextScenario ==
  \/ \E t \in TaskIds : WorkerBegin(t)
  \/ \E t \in TaskIds : Take(t)
  \/ \E t \in TaskIds : WorkOk(t)
  \/ \E t \in TaskIds : WorkErr(t)
  \/ \E i \in 1..MaxScenarioItems : Submit(i)
  \/ \E i \in ItemIds : SubmitReturn(i)

ScenarioSpec ==
  InitScenario /\ [][NextScenario]_vars

(* ---- app/core/cache.py: TTLCache ---- *)
\* Every method of TTLCache runs under self._lock from its first statement to
\* its last, so a call is one step.  An entry is [key, value, timestamp]; cache
\* lists the entries in the order of the OrderedDict, the first to be popped first.

\* The keys of a sequence of entries.
KeysOf(entries) ==
  {entries[n].key : n \in 1..Len(entries)}

\* "key in self._cache"
Stored(k) ==
  k \in KeysOf(cache)

\* Where the entry of a stored key is.
IndexOf(entries, k) ==
  CHOOSE n \in 1..Len(entries) : entries[n].key = k

\* self._cache[key]
Entry(k) ==
  cache[IndexOf(cache, k)]

\* "del self._cache[key]"
Without(entries, k) ==
  SelectSeq(entries, LAMBDA e : e.key # k)

\* "now - timestamp > self._ttl_seconds"
Expired(e) ==
  now - e.timestamp > ttl_seconds

\* accessOrder and insertOrder are history: no method reads or writes them, and
\* the methods below say nothing about them.  A specification either records
\* them beside each call (RecordGet, RecordSet) or leaves them as they are.

\* A history list restricted to the keys that are still stored.
Restrict(keys, S) ==
  SelectSeq(keys, LAMBDA x : x \in S)

\* A history list with key k moved (or added) to its end.
Touch(keys, k) ==
  Append(SelectSeq(keys, LAMBDA x : x # k), k)

\* __init__ with any configuration; the clock starts at 0.
InitCache ==
  /\ max_size \in 0..MaxCacheSize
  /\ ttl_seconds \in 1..MaxTtl
  /\ cache = <<>>
  /\ hits = 0
  /\ misses = 0
  /\ now = 0
  /\ last = NoCall
  /\ accessOrder = <<>>
  /\ insertOrder = <<>>
  /\ ref = <<>>
  /\ refLast = None

\* As Get, with the test of the age "now - timestamp >= ttl".
GetExpiresEarly(k) ==
  /\ hits + misses < MaxGets
  /\ IF ~Stored(k)
       THEN /\ misses' = misses + 1
            /\ last' = [op |-> "get", key |-> k, val |-> None, flag |-> FALSE]
            /\ UNCHANGED <<cache, hits>>
       ELSE IF now - Entry(k).timestamp >= ttl_seconds
         THEN /\ cache' = Without(cache, k)
              /\ misses' = misses + 1
              /\ last' = [op |-> "get", key |-> k, val |-> None, flag |-> FALSE]
              /\ UNCHANGED hits
         ELSE /\ cache' = Append(Without(cache, k), Entry(k))
              /\ hits' = hits + 1
              /\ last' = [op |-> "get", key |-> k, val |-> Entry(k).value, flag |-> TRUE]
              /\ UNCHANGED misses
  /\ UNCHANGED <<nonCacheVars, max_size, ttl_seconds, now>>

\* As Get, leaving an expired entry where it is.
GetKeepsExpired(k) ==
  /\ hits + misses < MaxGets
  /\ IF ~Stored(k) \/ Expired(Entry(k))
       THEN /\ misses' = misses + 1
            /\ last' = [op |-> "get", key |-> k, val |-> None, flag |-> FALSE]
            /\ UNCHANGED <<cache, hits>>
       ELSE /\ cache' = Append(Without(cache, k), Entry(k))
            /\ hits' = hits + 1
            /\ last' = [op |-> "get", key |-> k, val |-> Entry(k).value, flag |-> TRUE]
            /\ UNCHANGED misses
  /\ UNCHANGED <<nonCacheVars, max_size, ttl_seconds, now>>

\* As Get, counting the read of an expired entry as a hit.
GetCountsExpiredAsHit(k) ==
  /\ hits + misses < MaxGets
  /\ IF ~Stored(k)
       THEN /\ misses' = misses + 1
            /\ last' = [op |-> "get", key |-> k, val |-> None, flag |-> FALSE]
            /\ UNCHANGED <<cache, hits>>
       ELSE IF Expired(Entry(k))
         THEN /\ cache' = Without(cache, k)
              /\ hits' = hits + 1
              /\ last' = [op |-> "get", key |-> k, val |-> None, flag |-> FALSE]
              /\ UNCHANGED misses
         ELSE /\ cache' = Append(Without(cache, k), Entry(k))
              /\ hits' = hits + 1
              /\ last' = [op |-> "get", key |-> k, val |-> Entry(k).value, flag |-> TRUE]
              /\ UNCHANGED misses
  /\ UNCHANGED <<nonCacheVars, max_size, ttl_seconds, now>>

\* get(key); last.flag tells whether the entry was found live.
Get(k) ==
  /\ hits + misses < MaxGets
  /\ IF ~Stored(k)
       THEN /\ misses' = misses + 1
            /\ last' = [op |-> "get", key |-> k, val |-> None, flag |-> FALSE]
            /\ UNCHANGED <<cache, hits>>
       ELSE IF Expired(Entry(k))
         THEN /\ cache' = Without(cache, k)
              /\ misses' = misses + 1
              /\ last' = [op |-> "get", key |-> k, val |-> None, flag |-> FALSE]
              /\ UNCHANGED hits
         ELSE /\ cache' = Append(Without(cache, k), Entry(k))
              /\ hits' = hits + 1
              /\ last' = [op |-> "get", key |-> k, val |-> Entry(k).value, flag |-> TRUE]
              /\ UNCHANGED misses
  /\ UNCHANGED <<nonCacheVars, max_size, ttl_seconds, now>>

\* "while len(self._cache) >= self._max_size: self._cache.popitem(last=False)",
\* as far as it runs without an error: popitem() on an empty dict raises KeyError.
RECURSIVE Evict(_)
Evict(entries) ==
  IF Len(entries) >= max_size /\ entries # <<>>
    THEN Evict(Tail(entries))
    ELSE entries

\* self._cache[key] = entry: a stored key keeps its place in the OrderedDict, a
\* new key goes to the end.
Assign(entries, e) ==
  IF e.key \in KeysOf(entries)
    THEN [entries EXCEPT ![IndexOf(entries, e.key)] = e]
    ELSE Append(entries, e)

\* As Set, evicting only when more than max_size entries are stored.
SetEvictsLate(k, v) ==
  LET rest == IF Len(cache) > max_size THEN Tail(cache) ELSE cache
  IN /\ cache' = Assign(rest, [key |-> k, value |-> v, timestamp |-> now])
     /\ last' = [op |-> "set", key |-> k, val |-> v, flag |-> TRUE]
     /\ UNCHANGED <<nonCacheVars, max_size, ttl_seconds, hits, misses, now>>

\* set(key, value); last.flag tells whether it returned (TRUE) or raised
\* KeyError out of popitem() (FALSE).
Set(k, v) ==
  LET rest == Evict(cache)
  IN IF Len(rest) >= max_size
       THEN /\ cache' = rest
            /\ last' = [op |-> "set", key |-> k, val |-> v, flag |-> FALSE]
            /\ UNCHANGED <<nonCacheVars, max_size, ttl_seconds, hits, misses, now>>
       ELSE /\ cache' = Assign(rest, [key |-> k, value |-> v, timestamp |-> now])
            /\ last' = [op |-> "set", key |-> k, val |-> v, flag |-> TRUE]
            /\ UNCHANGED <<nonCacheVars, max_size, ttl_seconds, hits, misses, now>>

\* As Invalidate, reporting FALSE for an entry that is stored but expired.
InvalidateChecksTtl(k) ==
  /\ cache' = Without(cache, k)
  /\ last' = [op |-> "invalidate", key |-> k, val |-> None,
              flag |-> Stored(k) /\ ~Expired(Entry(k))]
  /\ UNCHANGED <<nonCacheVars, max_size, ttl_seconds, hits, misses, now>>

\* invalidate(key); last.flag is what it returns.
Invalidate(k) ==
  /\ cache' = Without(cache, k)
  /\ last' = [op |-> "invalidate", key |-> k, val |-> None, flag |-> Stored(k)]
  /\ UNCHANGED <<nonCacheVars, max_size, ttl_seconds, hits, misses, now>>

\* clear()
Clear ==
  /\ cache' = <<>>
  /\ last' = [op |-> "clear", key |-> 0, val |-> None, flag |-> TRUE]
  /\ UNCHANGED <<nonCacheVars, max_size, ttl_seconds, hits, misses, now>>

\* cleanup_expired removing an entry one second before it expires.
CleanupExpiresEarly ==
  /\ cache' = SelectSeq(cache, LAMBDA e : now - e.timestamp < ttl_seconds)
  /\ last' = [op |-> "cleanup_expired", key |-> 0,
              val |-> Len(cache) - Len(cache'), flag |-> TRUE]
  /\ UNCHANGED <<nonCacheVars, max_size, ttl_seconds, hits, misses, now>>

\* cleanup_expired(); last.val is the number it returns.
CleanupExpired ==
  /\ cache' = SelectSeq(cache, LAMBDA e : ~Expired(e))
  /\ last' = [op |-> "cleanup_expired", key |-> 0,
              val |-> Len(cache) - Len(cache'), flag |-> TRUE]
  /\ UNCHANGED <<nonCacheVars, max_size, ttl_seconds, hits, misses, now>>

\* hit_rate_percent of get_stats(), in hundredths of a percent:
\* round(hits / total * 100, 2), and 0 when no get has been made.
HitRatePercentX100 ==
  IF hits + misses > 0
    THEN (2 * hits * 10000 + (hits + misses)) \div (2 * (hits + misses))
    ELSE 0

\* get_stats(): a snapshot, nothing is changed.
get_stats ==
  [size |-> Len(cache), max_size |-> max_size, ttl_seconds |-> ttl_seconds,
   hits |-> hits, misses |-> misses, hit_rate_percent_x100 |-> HitRatePercentX100]

\* Time passes: the next reading of time.time() is later.
Tick ==
  /\ now < MaxClock
  /\ now' = now + 1
  /\ UNCHANGED <<nonCacheVars, max_size, ttl_seconds, cache, hits, misses,
                 last>>

\* The history of a get(k): a hit is an access of k; a removed key leaves the lists.
RecordGet(k) ==
  /\ accessOrder' = IF k \in KeysOf(cache')
                       THEN Touch(Restrict(accessOrder, KeysOf(cache')), k)
                       ELSE Restrict(accessOrder, KeysOf(cache'))
  /\ insertOrder' = Restrict(insertOrder, KeysOf(cache'))

\* The history of a set(k, v): an access of k, and an insertion of k unless k
\* was stored and stayed so; evicted keys leave the lists.
RecordSet(k) ==
  /\ accessOrder' = IF k \in KeysOf(cache')
                       THEN Touch(Restrict(accessOrder, KeysOf(cache')), k)
                       ELSE Restrict(accessOrder, KeysOf(cache'))
  /\ insertOrder' = IF k \in KeysOf(Evict(cache)) \/ k \notin KeysOf(cache')
                       THEN Restrict(insertOrder, KeysOf(cache'))
                       ELSE Append(Restrict(insertOrder, KeysOf(cache') \ {k}), k)

\* A queue that nothing uses: constructed with max_concurrent=1 and
\* max_queue_size=1, never started, nothing submitted.
QueueUnused ==
  /\ max_concurrent = 1
  /\ max_queue_size = 1
  /\ queue = <<>>
  /\ running = FALSE
  /\ workers = {}
  /\ active_tasks = 0
  /\ total_processed = 0
  /\ total_errors = 0
  /\ task = [t \in TaskIds |-> NoTask]
  /\ future = [i \in ItemIds |-> NoFuture]
  /\ caller = [i \in ItemIds |-> NoCaller]
  /\ stopping = IdleStop
  /\ startOrder = <<>>
  /\ starts = 0

\* A cache under any calls of its methods, with the clock running.
InitCacheSpec ==
  /\ QueueUnused
  /\ ChatUnused
  /\ StoreUnused
  /\ LimiterUnused
  /\ InitCache

NextCache ==
  \/ \E k \in Keys : Get(k) /\ UNCHANGED histVars
  \/ \E k \in Keys : \E v \in Values : Set(k, v) /\ UNCHANGED histVars
  \/ \E k \in Keys : Invalidate(k) /\ UNCHANGED histVars
  \/ Clear /\ UNCHANGED histVars
  \/ CleanupExpired /\ UNCHANGED histVars
  \/ Tick /\ UNCHANGED histVars

CacheSpec ==
  InitCacheSpec /\ [][NextCache]_vars

\* A larger cache under get and set alone, within the lifetime of its entries
\* (the caches of the application keep an entry for 30 or 60 minutes).
InitLru ==
  /\ QueueUnused
  /\ ChatUnused
  /\ StoreUnused
  /\ LimiterUnused
  /\ max_size \in 1..MaxLruSize
  /\ ttl_seconds = MaxTtl
  /\ cache = <<>>
  /\ hits = 0
  /\ misses = 0
  /\ now = 0
  /\ last = NoCall
  /\ accessOrder = <<>>
  /\ insertOrder = <<>>
  /\ ref = <<>>
  /\ refLast = None

NextLru ==
  \/ \E k \in LruKeys : Get(k) /\ RecordGet(k) /\ UNCHANGED <<ref, refLast>>
  \/ \E k \in LruKeys : Set(k, 1) /\ RecordSet(k) /\ UNCHANGED <<ref, refLast>>

LruSpec ==
  InitLru /\ [][NextLru]_vars

(* ---- TTLCache as a function of the entries ---- *)
\* get and set once more, as functions of a dict of entries rather than as
\* steps on self._cache: for a second cache that is given the same calls, and
\* for a caller that makes two calls in one step.

\* What get(k) returns from entries.
GetValue(entries, k) ==
  IF k \in KeysOf(entries) /\ ~Expired(entries[IndexOf(entries, k)])
    THEN entries[IndexOf(entries, k)].value
    ELSE None

\* The entries after get(k).
AfterGet(entries, k) ==
  IF k \notin KeysOf(entries)
    THEN entries
    ELSE IF Expired(entries[IndexOf(entries, k)])
      THEN Without(entries, k)
      ELSE Append(Without(entries, k), entries[IndexOf(entries, k)])

\* Whether set raises KeyError on entries.
SetRaises(entries) ==
  Len(Evict(entries)) >= max_size

\* The entries after set(k, v).
AfterSet(entries, k, v) ==
  IF SetRaises(entries)
    THEN Evict(entries)
    ELSE Assign(Evict(entries), [key |-> k, value |-> v, timestamp |-> now])

(* ---- a cache with cleanup_expired beside one without ---- *)
\* cache is given get, set and cleanup_expired calls while the clock runs; ref is
\* given the same get and set calls at the same clock readings, and no cleanup.
NextReclaim ==
  \/ \E k \in Keys :
       /\ Get(k)
       /\ ref' = AfterGet(ref, k)
       /\ refLast' = GetValue(ref, k)
       /\ UNCHANGED <<accessOrder, insertOrder>>
  \/ \E k \in Keys : \E v \in Values :
       /\ Set(k, v)
       /\ ref' = AfterSet(ref, k, v)
       /\ UNCHANGED <<accessOrder, insertOrder, refLast>>
  \/ CleanupExpired /\ UNCHANGED histVars
  \/ Tick /\ UNCHANGED histVars

ReclaimSpec ==
  InitCacheSpec /\ [][NextReclaim]_vars

(* ---- app/repositories/vector_store.py: the search cache ---- *)
\* The methods of VectorStoreRepository are coroutines that never await: each
\* runs from its first statement to its last in one step of the event loop.
\* store is the set of sources whose chunks the vector store holds; cache is
\* the search cache of the repository.

\* What vectorstore.similarity_search_with_score returns for a query: it is
\* computed from the chunks in the store, and differs for any two contents.
RECURSIVE Result(_)
Result(S) ==
  IF S = {}
    THEN 1
    ELSE LET s == CHOOSE x \in S : TRUE
         IN 2 ^ (s - 1) + Result(S \ {s})

\* A repository over an empty vector store, with an empty search cache.
InitStore ==
  /\ QueueUnused
  /\ ChatUnused
  /\ LimiterUnused
  /\ InitCache
  /\ max_size >= 1
  /\ store = {}

\* add_documents without the clear() that follows the write.
AddDocumentsKeepsCache(s, ok) ==
  /\ store' = IF ok THEN store \cup {s} ELSE store
  /\ cache' = cache
  /\ last' = [op |-> "add_documents", key |-> s, val |-> None, flag |-> ok]
  /\ UNCHANGED <<queueVars, chatVars, limiterVars, max_size, ttl_seconds,
                 hits, misses, now>>

\* add_documents(documents) for the chunks of source s.  ok: the vector store
\* took the chunks; otherwise it raised, and VectorStoreError is raised before
\* the cache is reached.
AddDocuments(s, ok) ==
  /\ store' = IF ok THEN store \cup {s} ELSE store
  /\ cache' = IF ok THEN <<>> ELSE cache
  /\ last' = [op |-> "add_documents", key |-> s, val |-> None, flag |-> ok]
  /\ UNCHANGED <<queueVars, chatVars, limiterVars, max_size, ttl_seconds,
                 hits, misses, now>>

\* delete_by_source(source): chunks found are deleted and the cache cleared
\* (True); nothing found, nothing done (False).
DeleteBySource(s) ==
  /\ store' = store \ {s}
  /\ cache' = IF s \in store THEN <<>> ELSE cache
  /\ last' = [op |-> "delete_by_source", key |-> s, val |-> None,
              flag |-> s \in store]
  /\ UNCHANGED <<queueVars, chatVars, limiterVars, max_size, ttl_seconds,
                 hits, misses, now>>

\* similarity_search_with_score(query): the cached result if get finds one,
\* else the result of the vector store, which is cached.  last.val is what is
\* returned, last.flag whether it came from the cache.
SimilaritySearchWithScore(q) ==
  /\ hits + misses < MaxGets
  /\ LET cached == GetValue(cache, q)
     IN IF cached # None
          THEN /\ cache' = AfterGet(cache, q)
               /\ hits' = hits + 1
               /\ misses' = misses
               /\ last' = [op |-> "search", key |-> q, val |-> cached,
                           flag |-> TRUE]
          ELSE /\ cache' = AfterSet(AfterGet(cache, q), q, Result(store))
               /\ hits' = hits
               /\ misses' = misses + 1
               /\ last' = [op |-> "search", key |-> q, val |-> Result(store),
                           flag |-> FALSE]
  /\ UNCHANGED <<nonCacheVars, max_size, ttl_seconds, now>>

NextStore ==
  \/ \E s \in Sources : \E ok \in BOOLEAN :
       AddDocuments(s, ok) /\ UNCHANGED histVars
  \/ \E s \in Sources : DeleteBySource(s) /\ UNCHANGED histVars
  \/ \E q \in Keys : SimilaritySearchWithScore(q) /\ UNCHANGED histVars
  \/ Tick /\ UNCHANGED histVars

StoreSpec ==
  InitStore /\ [][NextStore]_vars

(* ---- app/core/rate_limiter.py: RateLimiter ---- *)
\* Tokens are floats in the code.  Here a token count is a whole number of
\* units, TokenUnit of them to a token, and the clock is read in whole
\* seconds: max_tokens and a cost are in tokens, refill_rate is in units per
\* second (0.5 token per second is two units per second).

\* The smaller of two numbers: min().
Min(a, b) ==
  IF a <= b THEN a ELSE b

\* self._max_tokens in units.
Capacity ==
  TokenUnit * max_tokens

\* A reading of the clock at which every bucket refilled by MaxLimiterClock is
\* stale.
Late ==
  MaxLimiterClock + window_seconds * 10 + 1

\* The readings of time.time() a limiter is called at.
Readings ==
  (0..MaxLimiterClock) \cup {Late}

\* self._buckets[client_key]: the defaultdict makes a full bucket for a new key.
Bucket(c) ==
  IF buckets[c].present
    THEN buckets[c]
    ELSE [present |-> TRUE, tokens |-> Capacity, last_refill |-> now]

\* The same, of any dict of buckets.
BucketOf(bs, c) ==
  IF bs[c].present
    THEN bs[c]
    ELSE [present |-> TRUE, tokens |-> Capacity, last_refill |-> now]

\* _refill that adds the elapsed tokens without the cap.
RefillUncapped(b) ==
  [b EXCEPT !.tokens = b.tokens + (now - b.last_refill) * refill_rate,
            !.last_refill = now]

\* _refill that leaves last_refill as it was.
RefillKeepsStamp(b) ==
  [b EXCEPT !.tokens = Min(Capacity,
                           b.tokens + (now - b.last_refill) * refill_rate)]

\* _refill(bucket): the bucket after it.
Refill(b) ==
  [b EXCEPT !.tokens = Min(Capacity,
                           b.tokens + (now - b.last_refill) * refill_rate),
            !.last_refill = now]

\* A limiter just constructed, with any configuration.
InitLimiter ==
  /\ max_tokens \in 0..MaxTokens
  /\ refill_rate \in 0..MaxRate
  /\ window_seconds = 1
  /\ buckets = [c \in Clients |-> NoBucket]
  /\ reply = NoReply
  /\ lock = 0
  /\ thread = [t \in Threads |-> NoThread]
  /\ calls = <<>>
  /\ refBuckets = [c \in Clients |-> NoBucket]
  /\ refOk = TRUE

\* check that compares the tokens as they were before the refill.
CheckBeforeRefill(c, cost) ==
  LET b == Refill(Bucket(c))
      ok == Bucket(c).tokens >= TokenUnit * cost
  IN /\ buckets' = [buckets EXCEPT ![c] =
                      IF ok THEN [b EXCEPT !.tokens = @ - TokenUnit * cost]
                            ELSE b]
     /\ reply' = [op |-> "check", key |-> c, ok |-> ok, raised |-> FALSE,
                  num |-> 0, den |-> 1]
     /\ UNCHANGED <<nonLimiterVars, max_tokens, refill_rate, window_seconds,
                    lock, thread>>

\* check that debits one bucket shared by all client keys.
CheckSharedBucket(c, cost) ==
  LET b == Refill(Bucket(c))
      ok == b.tokens >= TokenUnit * cost
  IN /\ buckets' = [d \in Clients |->
                      IF ok THEN [b EXCEPT !.tokens = @ - TokenUnit * cost]
                            ELSE b]
     /\ reply' = [op |-> "check", key |-> c, ok |-> ok, raised |-> FALSE,
                  num |-> 0, den |-> 1]
     /\ UNCHANGED <<nonLimiterVars, max_tokens, refill_rate, window_seconds,
                    lock, thread>>

\* check(client_key, cost), the whole of it under self._lock.
Check(c, cost) ==
  LET b == Refill(Bucket(c))
      ok == b.tokens >= TokenUnit * cost
  IN /\ buckets' = [buckets EXCEPT ![c] =
                      IF ok THEN [b EXCEPT !.tokens = @ - TokenUnit * cost]
                            ELSE b]
     /\ reply' = [op |-> "check", key |-> c, ok |-> ok, raised |-> FALSE,
                  num |-> 0, den |-> 1]
     /\ UNCHANGED <<nonLimiterVars, max_tokens, refill_rate, window_seconds,
                    lock, thread>>

\* As get_retry_after, but the tokens asked about are taken when they are there.
GetRetryAfterReserves(c, cost) ==
  LET b == Bucket(c)
      needed == TokenUnit * cost - b.tokens
  IN /\ buckets' = [buckets EXCEPT ![c] =
                      IF needed <= 0
                        THEN [b EXCEPT !.tokens = @ - TokenUnit * cost]
                        ELSE b]
     /\ reply' = IF needed <= 0
                   THEN [op |-> "get_retry_after", key |-> c, ok |-> TRUE,
                         raised |-> FALSE, num |-> 0, den |-> 1]
                   ELSE IF refill_rate = 0
                     THEN [op |-> "get_retry_after", key |-> c, ok |-> FALSE,
                           raised |-> TRUE, num |-> 0, den |-> 1]
                     ELSE [op |-> "get_retry_after", key |-> c, ok |-> TRUE,
                           raised |-> FALSE, num |-> needed,
                           den |-> refill_rate]
     /\ UNCHANGED <<nonLimiterVars, max_tokens, refill_rate, window_seconds,
                    lock, thread>>

\* get_retry_after(client_key, cost): the seconds returned are reply.num /
\* reply.den; reply.raised when it raises ZeroDivisionError.  The bucket is
\* read as it is, and a new key gets its bucket.
GetRetryAfter(c, cost) ==
  LET b == Bucket(c)
      needed == TokenUnit * cost - b.tokens
  IN /\ buckets' = [buckets EXCEPT ![c] = b]
     /\ reply' = IF needed <= 0
                   THEN [op |-> "get_retry_after", key |-> c, ok |-> TRUE,
                         raised |-> FALSE, num |-> 0, den |-> 1]
                   ELSE IF refill_rate = 0
                     THEN [op |-> "get_retry_after", key |-> c, ok |-> FALSE,
                           raised |-> TRUE, num |-> 0, den |-> 1]
                     ELSE [op |-> "get_retry_after", key |-> c, ok |-> TRUE,
                           raised |-> FALSE, num |-> needed,
                           den |-> refill_rate]
     /\ UNCHANGED <<nonLimiterVars, max_tokens, refill_rate, window_seconds,
                    lock, thread>>

\* get_remaining(client_key): int(tokens) after the refill, in reply.num.
GetRemaining(c) ==
  LET b == Refill(Bucket(c))
  IN /\ buckets' = [buckets EXCEPT ![c] = b]
     /\ reply' = [op |-> "get_remaining", key |-> c, ok |-> TRUE,
                  raised |-> FALSE, num |-> b.tokens \div TokenUnit, den |-> 1]
     /\ UNCHANGED <<nonLimiterVars, max_tokens, refill_rate, window_seconds,
                    lock, thread>>

\* cleanup that empties the dict.
CleanupRemovesAll ==
  /\ buckets' = [c \in Clients |-> NoBucket]
  /\ reply' = [op |-> "cleanup", key |-> 0, ok |-> TRUE, raised |-> FALSE,
               num |-> Cardinality({c \in Clients : buckets[c].present}),
               den |-> 1]
  /\ UNCHANGED <<nonLimiterVars, max_tokens, refill_rate, window_seconds,
                 lock, thread>>

\* The client keys whose bucket cleanup() removes.
Stale ==
  {c \in Clients : /\ buckets[c].present
                   /\ now - buckets[c].last_refill > window_seconds * 10}

\* cleanup(): the number removed is in reply.num.
Cleanup ==
  /\ buckets' = [c \in Clients |-> IF c \in Stale THEN NoBucket ELSE buckets[c]]
  /\ reply' = [op |-> "cleanup", key |-> 0, ok |-> TRUE, raised |-> FALSE,
               num |-> Cardinality(Stale), den |-> 1]
  /\ UNCHANGED <<nonLimiterVars, max_tokens, refill_rate, window_seconds,
                 lock, thread>>

\* Time passes: the next call on the limiter reads a later clock.
Elapse(t) ==
  /\ t > now
  /\ now' = t
  /\ UNCHANGED <<queueVars, chatVars, storeVars, limiterVars, max_size,
                 ttl_seconds, cache, hits, misses, last, histVars>>

\* The history of a check: when it was made and what it returned.
RecordCheck ==
  calls' = Append(calls, [at |-> now, ok |-> reply'.ok])

\* A limiter under any calls of its methods, each made under the lock, with
\* the clock running.
InitLimiterSpec ==
  /\ QueueUnused
  /\ ChatUnused
  /\ StoreUnused
  /\ CacheUnused
  /\ InitLimiter

NextLimiter ==
  \/ \E c \in Clients : \E cost \in 1..MaxCost :
       Check(c, cost) /\ UNCHANGED limHist
  \/ \E c \in Clients : \E cost \in 1..MaxCost :
       GetRetryAfter(c, cost) /\ UNCHANGED limHist
  \/ \E c \in Clients : GetRemaining(c) /\ UNCHANGED limHist
  \/ Cleanup /\ UNCHANGED limHist
  \/ \E t \in Readings : Elapse(t)

LimiterSpec ==
  InitLimiterSpec /\ [][NextLimiter]_vars

\* The client key that the calls followed closely are made for.
ContendedKey == 1

(* ---- a limiter beside one that is given the check calls only ---- *)
\* check(client_key, cost) on the second limiter, at the same clock reading.
RefCheck(c, cost) ==
  LET b == Refill(BucketOf(refBuckets, c))
      ok == b.tokens >= TokenUnit * cost
  IN /\ refBuckets' = [refBuckets EXCEPT ![c] =
                         IF ok THEN [b EXCEPT !.tokens = @ - TokenUnit * cost]
                               ELSE b]
     /\ refOk' = ok

\* Both limiters are given the same checks of one client key; the first is
\* also asked get_retry_after and get_remaining, for any key.
NextAdvisory ==
  \/ \E cost \in 1..MaxCost :
       Check(ContendedKey, cost) /\ RefCheck(ContendedKey, cost) /\ UNCHANGED calls
  \/ \E c \in Clients : \E cost \in 1..MaxCost :
       GetRetryAfter(c, cost) /\ UNCHANGED limHist
  \/ \E c \in Clients : GetRemaining(c) /\ UNCHANGED limHist
  \/ \E t \in Readings : Elapse(t)

AdvisorySpec ==
  InitLimiterSpec /\ [][NextAdvisory]_vars

\* Both limiters are given the same checks; the first is also swept by cleanup.
NextSweep ==
  \/ \E c \in Clients : \E cost \in 1..MaxCost :
       Check(c, cost) /\ RefCheck(c, cost) /\ UNCHANGED calls
  \/ Cleanup /\ UNCHANGED limHist
  \/ \E t \in Readings : Elapse(t)

SweepSpec ==
  InitLimiterSpec /\ [][NextSweep]_vars

(* ---- the chat limiter under a burst of one client ---- *)
\* get_chat_rate_limiter(): max_tokens=10, refill_rate=0.5, window_seconds=60.
ChatMaxTokens == 10
ChatRefillRate == TokenUnit \div 2
ChatWindowSeconds == 60

\* The client whose requests are checked.
BurstClient == 1

InitBurst ==
  /\ QueueUnused
  /\ ChatUnused
  /\ StoreUnused
  /\ CacheUnused
  /\ max_tokens = ChatMaxTokens
  /\ refill_rate = ChatRefillRate
  /\ window_seconds = ChatWindowSeconds
  /\ buckets = [c \in Clients |-> NoBucket]
  /\ reply = NoReply
  /\ lock = 0
  /\ thread = [t \in Threads |-> NoThread]
  /\ calls = <<>>
  /\ refBuckets = [c \in Clients |-> NoBucket]
  /\ refOk = TRUE

\* Cost-1 checks of one client, at most MaxChecks of them, while up to
\* MaxBurstClock seconds pass.
NextBurst ==
  \/ /\ Len(calls) < MaxChecks
     /\ Check(BurstClient, 1)
     /\ RecordCheck
     /\ UNCHANGED <<refBuckets, refOk>>
  \/ \E t \in 1..MaxBurstClock : Elapse(t)

BurstSpec ==
  InitBurst /\ [][NextBurst]_vars

(* ---- check, statement by statement, called from several threads ---- *)
\* thread[t].pc is where thread t is in check: "out" (not in a call),
\* "waiting" (called, at 'with self._lock'), "locked" (inside, before the bucket
\* is read), "refilled" (after _refill), "compared" (after the comparison,
\* thread[t].seen being the tokens compared and thread[t].result its outcome),
\* "leaving" (after the debit, before the lock is released).

InSection(t) ==
  thread[t].pc \in {"locked", "refilled", "compared", "leaving"}

\* Thread t calls check(c, cost).
CheckCall(t, c, cost) ==
  /\ thread[t].pc = "out"
  /\ thread' = [thread EXCEPT ![t] = [NoThread EXCEPT !.pc = "waiting",
                                                      !.key = c,
                                                      !.cost = cost]]
  /\ UNCHANGED <<nonLimiterVars, max_tokens, refill_rate, window_seconds,
                 buckets, reply, lock, limHist>>

\* Entering the body without holding the lock.
CheckAcquireUnlocked(t) ==
  /\ thread[t].pc = "waiting"
  /\ lock' = t
  /\ thread' = [thread EXCEPT ![t].pc = "locked"]
  /\ UNCHANGED <<nonLimiterVars, max_tokens, refill_rate, window_seconds,
                 buckets, reply, limHist>>

\* with self._lock: the lock is taken when no thread holds it.
CheckAcquire(t) ==
  /\ thread[t].pc = "waiting"
  /\ lock = 0
  /\ lock' = t
  /\ thread' = [thread EXCEPT ![t].pc = "locked"]
  /\ UNCHANGED <<nonLimiterVars, max_tokens, refill_rate, window_seconds,
                 buckets, reply, limHist>>

\* bucket = self._buckets[client_key]; self._refill(bucket)
CheckRefill(t) ==
  /\ thread[t].pc = "locked"
  /\ buckets' = [buckets EXCEPT ![thread[t].key] = Refill(Bucket(thread[t].key))]
  /\ thread' = [thread EXCEPT ![t].pc = "refilled"]
  /\ UNCHANGED <<nonLimiterVars, max_tokens, refill_rate, window_seconds,
                 reply, lock, limHist>>

\* if bucket["tokens"] >= cost
CheckCompare(t) ==
  /\ thread[t].pc = "refilled"
  /\ thread' = [thread EXCEPT
                  ![t].pc = "compared",
                  ![t].seen = buckets[thread[t].key].tokens,
                  ![t].result = buckets[thread[t].key].tokens
                                  >= TokenUnit * thread[t].cost]
  /\ UNCHANGED <<nonLimiterVars, max_tokens, refill_rate, window_seconds,
                 buckets, reply, lock, limHist>>

\* bucket["tokens"] -= cost, when the comparison held.
CheckDebit(t) ==
  /\ thread[t].pc = "compared"
  /\ buckets' = IF thread[t].result
                  THEN [buckets EXCEPT ![thread[t].key].tokens =
                                          @ - TokenUnit * thread[t].cost]
                  ELSE buckets
  /\ thread' = [thread EXCEPT ![t].pc = "leaving"]
  /\ UNCHANGED <<nonLimiterVars, max_tokens, refill_rate, window_seconds,
                 reply, lock, limHist>>

\* return True / return False: the lock is released on the way out.
CheckRelease(t) ==
  /\ thread[t].pc = "leaving"
  /\ lock' = IF lock = t THEN 0 ELSE lock
  /\ reply' = [op |-> "check", key |-> thread[t].key, ok |-> thread[t].result,
               raised |-> FALSE, num |-> 0, den |-> 1]
  /\ thread' = [thread EXCEPT ![t] = NoThread]
  /\ UNCHANGED <<nonLimiterVars, max_tokens, refill_rate, window_seconds,
                 buckets, limHist>>

\* Threads calling check for one client key, each call with any cost, while
\* the clock runs.
NextThreads ==
  \/ \E t \in Threads : \E cost \in 1..MaxCost :
       CheckCall(t, ContendedKey, cost)
  \/ \E t \in Threads : CheckAcquire(t)
  \/ \E t \in Threads : CheckRefill(t)
  \/ \E t \in Threads : CheckCompare(t)
  \/ \E t \in Threads : CheckDebit(t)
  \/ \E t \in Threads : CheckRelease(t)
  \/ \E r \in 0..MaxLimiterClock : Elapse(r)

ThreadSpec ==
  InitLimiterSpec /\ [][NextThreads]_vars

(* ---- app/services/chat_service.py and app/api/routes/chat.py ---- *)
\* Item i of the queue is the inference of chat request i: ChatService.chat
\* reaches self._queue.submit (Submit above) after the reads of the session, the
\* vector store and the response cache, and the work it submits is
\* _run_inference, one generation call on the LLM.

\* llm_connection_error(detail): HTTPException with status 503.
llm_connection_error(detail) ==
  [status |-> 503, exc |-> "LLMConnectionError", detail |-> detail]

\* What ChatService.chat does with the outcome of submit(), and the route with
\* the outcome of ChatService.chat.  "except asyncio.QueueFull" and "except
\* Exception" both raise LLMConnectionError, with different messages; the route
\* turns every LLMConnectionError into llm_connection_error(str(e)).
ChatRespond(i) ==
  /\ http[i] = NoResponse
  /\ caller[i].st \in {"queue_full", "raised", "returned"}
  /\ http' = [http EXCEPT ![i] =
                CASE caller[i].st = "queue_full" ->
                       llm_connection_error("El sistema esta procesando demasiadas solicitudes")
                  [] caller[i].st = "raised" ->
                       llm_connection_error("Error processing chat")
                  [] caller[i].st = "returned" ->
                       [status |-> 200, exc |-> "none", detail |-> "answer"]]
  /\ UNCHANGED <<nonChatVars, stream, req, answered>>

\* ChatService.chat_stream up to its first chunk: "async for chunk in
\* chain.astream(...)" calls the LLM from the request's own task; nothing is
\* submitted to the queue.
StreamBegin(s) ==
  /\ stream[s] = "none"
  /\ \A r \in StreamIds : r < s => stream[r] # "none"
  /\ stream' = [stream EXCEPT ![s] = "generating"]
  /\ UNCHANGED <<nonChatVars, http, req, answered>>

\* The generation of a streaming request ends: the last chunk has been yielded,
\* or the LLM raised and the error chunk is yielded.
StreamEnd(s) ==
  /\ stream[s] = "generating"
  /\ stream' = [stream EXCEPT ![s] = "done"]
  /\ UNCHANGED <<nonChatVars, http, req, answered>>

\* The generation calls on the LLM that are in progress: the works of the queue's
\* workers and the streams.
GenerationsInProgress ==
  Cardinality({t \in TaskIds : task[t].pc = "working"})
    + Cardinality({s \in StreamIds : stream[s] = "generating"})

\* The chat routes of the running application.
NextChat ==
  \/ \E t \in TaskIds : WorkerBegin(t)
  \/ \E t \in TaskIds : Take(t)
  \/ \E t \in TaskIds : WorkOk(t)
  \/ \E t \in TaskIds : WorkErr(t)
  \/ \E i \in 1..MaxItems : Submit(i)
  \/ \E i \in ItemIds : SubmitReturn(i)
  \/ \E i \in ItemIds : ChatRespond(i)
  \/ \E s \in StreamIds : StreamBegin(s)
  \/ \E s \in StreamIds : StreamEnd(s)

ChatSpec ==
  InitRunning /\ [][NextChat]_vars

(* ---- a chat request from the rate limiter to its response ---- *)
\* req[i].pc is where request i is: "none" (not arrived), "rejected" (429),
\* "failed" (the route raised), "admitted" (the check passed), "submitting"
\* (response cache missed, inference handed to the queue as item req[i].item),
\* "responded".  req[i].did names the calls made for it on the session service,
\* the vector store and the response cache.  Every request asks the same
\* question in a new session, so the response cache key is the same and the
\* chat history is empty.  The clock is read TicksPerSecond times a second and
\* refill_rate is in units per reading.

\* As Admit, but the session, the documents and the response cache are read
\* before the limiter is asked.
AdmitAfterLookup(i, c, r) ==
  /\ req[i].pc = "none"
  /\ \A j \in ItemIds : j < i => req[j].pc # "none"
  /\ LET b == Refill(Bucket(c))
         ok == b.tokens >= TokenUnit
         needed == TokenUnit - b.tokens
         arrived == [NoRequest EXCEPT !.client = c, !.route = r, !.at = now,
                                      !.did = {"session", "search", "cache_get"}]
     IN IF ok
          THEN /\ buckets' = [buckets EXCEPT ![c] = [b EXCEPT !.tokens = @ - TokenUnit]]
               /\ reply' = [op |-> "check", key |-> c, ok |-> TRUE, raised |-> FALSE,
                            num |-> 0, den |-> 1]
               /\ req' = [req EXCEPT ![i] = [arrived EXCEPT !.pc = "admitted"]]
               /\ UNCHANGED http
          ELSE /\ buckets' = [buckets EXCEPT ![c] = b]
               /\ IF refill_rate = 0
                    THEN /\ reply' = [op |-> "get_retry_after", key |-> c, ok |-> FALSE,
                                      raised |-> TRUE, num |-> 0, den |-> 1]
                         /\ http' = [http EXCEPT ![i] =
                                       [status |-> 500, exc |-> "ZeroDivisionError",
                                        detail |-> "none"]]
                         /\ req' = [req EXCEPT ![i] = [arrived EXCEPT !.pc = "failed"]]
                    ELSE /\ reply' = [op |-> "get_retry_after", key |-> c, ok |-> TRUE,
                                      raised |-> FALSE, num |-> needed,
                                      den |-> refill_rate]
                         /\ http' = [http EXCEPT ![i] =
                                       [status |-> 429, exc |-> "HTTPException",
                                        detail |-> "Demasiadas solicitudes"]]
                         /\ req' = [req EXCEPT ![i] =
                                      [arrived EXCEPT
                                         !.pc = "rejected",
                                         !.header =
                                           [present |-> TRUE,
                                            seconds |-> needed \div
                                                          (refill_rate * TicksPerSecond)]]]
  /\ UNCHANGED <<queueVars, cacheVars, storeVars, stream, answered, max_tokens,
                 refill_rate, window_seconds, lock, thread, limHist>>

\* The first statements of chat and of chat_stream, for request i of client
\* key c on route r: limiter.check(request, cost=1) and, when it refuses,
\* get_retry_after and HTTPException 429 with "Retry-After":
\* str(int(retry_after)).  With refill_rate 0 get_retry_after raises.
Admit(i, c, r) ==
  /\ req[i].pc = "none"
  /\ \A j \in ItemIds : j < i => req[j].pc # "none"
  /\ LET b == Refill(Bucket(c))
         ok == b.tokens >= TokenUnit
         needed == TokenUnit - b.tokens
         arrived == [NoRequest EXCEPT !.client = c, !.route = r, !.at = now]
     IN IF ok
          THEN /\ buckets' = [buckets EXCEPT ![c] = [b EXCEPT !.tokens = @ - TokenUnit]]
               /\ reply' = [op |-> "check", key |-> c, ok |-> TRUE, raised |-> FALSE,
                            num |-> 0, den |-> 1]
               /\ req' = [req EXCEPT ![i] = [arrived EXCEPT !.pc = "admitted"]]
               /\ UNCHANGED http
          ELSE /\ buckets' = [buckets EXCEPT ![c] = b]
               /\ IF refill_rate = 0
                    THEN /\ reply' = [op |-> "get_retry_after", key |-> c, ok |-> FALSE,
                                      raised |-> TRUE, num |-> 0, den |-> 1]
                         /\ http' = [http EXCEPT ![i] =
                                       [status |-> 500, exc |-> "ZeroDivisionError",
                                        detail |-> "none"]]
                         /\ req' = [req EXCEPT ![i] = [arrived EXCEPT !.pc = "failed"]]
                    ELSE /\ reply' = [op |-> "get_retry_after", key |-> c, ok |-> TRUE,
                                      raised |-> FALSE, num |-> needed,
                                      den |-> refill_rate]
                         /\ http' = [http EXCEPT ![i] =
                                       [status |-> 429, exc |-> "HTTPException",
                                        detail |-> "Demasiadas solicitudes"]]
                         /\ req' = [req EXCEPT ![i] =
                                      [arrived EXCEPT
                                         !.pc = "rejected",
                                         !.header =
                                           [present |-> TRUE,
                                            seconds |-> needed \div
                                                          (refill_rate * TicksPerSecond)]]]
  /\ UNCHANGED <<queueVars, cacheVars, storeVars, stream, answered, max_tokens,
                 refill_rate, window_seconds, lock, thread, limHist>>

\* ChatService.chat up to the response cache: get_or_create_session,
\* similarity_search_with_score, self._response_cache.get.  On a hit the two
\* messages are added to the session and the cached answer is returned; on a
\* miss the inference is the next item handed to the queue.
Serve(i) ==
  /\ req[i].pc = "admitted"
  /\ req[i].route = "chat"
  /\ IF answered
       THEN /\ req' = [req EXCEPT ![i].pc = "responded",
                                  ![i].did = {"session", "search", "cache_get",
                                              "history"}]
            /\ http' = [http EXCEPT ![i] =
                          [status |-> 200, exc |-> "none", detail |-> "answer"]]
       ELSE /\ req' = [req EXCEPT ![i].pc = "submitting",
                                  ![i].did = {"session", "search", "cache_get"},
                                  ![i].item = 1 + Cardinality({j \in ItemIds :
                                                                req[j].item # 0})]
            /\ UNCHANGED http
  /\ UNCHANGED <<nonChatVars, stream, answered>>

\* self._queue.submit of the inference of a request whose lookup missed.
Dispatch(n) ==
  /\ \E i \in ItemIds : req[i].pc = "submitting" /\ req[i].item = n
  /\ Submit(n)

\* What ChatService.chat does with the outcome of submit(), as ChatRespond: on
\* an answer, self._response_cache.set and the two add_message calls.
ChatAnswer(i) ==
  /\ req[i].pc = "submitting"
  /\ LET st == caller[req[i].item].st
     IN /\ st \in {"queue_full", "raised", "returned"}
        /\ http' = [http EXCEPT ![i] =
                      CASE st = "queue_full" ->
                             llm_connection_error("El sistema esta procesando demasiadas solicitudes")
                        [] st = "raised" ->
                             llm_connection_error("Error processing chat")
                        [] st = "returned" ->
                             [status |-> 200, exc |-> "none", detail |-> "answer"]]
        /\ req' = [req EXCEPT ![i].pc = "responded",
                              ![i].did = IF st = "returned"
                                           THEN @ \cup {"cache_set", "history"}
                                           ELSE @]
        /\ answered' = (answered \/ st = "returned")
  /\ UNCHANGED <<nonChatVars, stream>>

\* chat_stream after the limiter: StreamingResponse over
\* ChatService.chat_stream, which reads the session and the documents, streams
\* from the LLM and adds the two messages; no response cache, no queue.
StreamServe(i) ==
  /\ req[i].pc = "admitted"
  /\ req[i].route = "stream"
  /\ req' = [req EXCEPT ![i].pc = "responded",
                        ![i].did = {"session", "search", "history"}]
  /\ http' = [http EXCEPT ![i] =
                [status |-> 200, exc |-> "none", detail |-> "stream"]]
  /\ UNCHANGED <<nonChatVars, stream, answered>>

\* The application is running, with a queue of one worker and one place; the
\* chat limiter is new for a client key, or the client has spent its burst,
\* or all of it but one token, at time 0.
InitRoute ==
  /\ CacheUnused
  /\ StoreUnused
  /\ ChatUnused
  /\ max_concurrent = 1
  /\ max_queue_size = 1
  /\ queue = <<>>
  /\ running = TRUE
  /\ workers = 1..max_concurrent
  /\ active_tasks = 0
  /\ total_processed = 0
  /\ total_errors = 0
  /\ task = [t \in TaskIds |->
               IF t <= max_concurrent
                 THEN [pc |-> "new", item |-> 0, cancelReq |-> FALSE]
                 ELSE NoTask]
  /\ future = [i \in ItemIds |-> NoFuture]
  /\ caller = [i \in ItemIds |-> NoCaller]
  /\ stopping = IdleStop
  /\ startOrder = <<>>
  /\ starts = 1
  /\ max_tokens = ChatMaxTokens
  /\ refill_rate = ChatRefillRate \div TicksPerSecond
  /\ window_seconds = ChatWindowSeconds
  /\ buckets \in [Clients -> {NoBucket,
                              [present |-> TRUE, tokens |-> 0, last_refill |-> 0],
                              [present |-> TRUE, tokens |-> TokenUnit,
                               last_refill |-> 0]}]
  /\ reply = NoReply
  /\ lock = 0
  /\ thread = [t \in Threads |-> NoThread]
  /\ calls = <<>>
  /\ refBuckets = [c \in Clients |-> NoBucket]
  /\ refOk = TRUE

\* The requests of one client key from their arrival to their response.
NextRoute ==
  \/ \E i \in 1..MaxItems : \E r \in {"chat", "stream"} :
       Admit(i, BurstClient, r)
  \/ \E i \in ItemIds : Serve(i)
  \/ \E i \in ItemIds : StreamServe(i)
  \/ \E n \in 1..MaxItems : Dispatch(n)
  \/ \E t \in TaskIds : WorkerBegin(t)
  \/ \E t \in TaskIds : Take(t)
  \/ \E t \in TaskIds : WorkOk(t)
  \/ \E t \in TaskIds : WorkErr(t)
  \/ \E n \in ItemIds : SubmitReturn(n)
  \/ \E i \in ItemIds : ChatAnswer(i)

RouteSpec ==
  InitRoute /\ [][NextRoute]_vars

\* The requests as the limiter sees them, while the clock runs: what a route
\* does after its first statements does not reach the limiter.
NextPaced ==
  \/ \E i \in 1..MaxItems : \E c \in Clients : \E r \in {"chat", "stream"} :
       Admit(i, c, r)
  \/ \E t \in 1..MaxRouteClock : Elapse(t)

PacedSpec ==
  InitRoute /\ [][NextPaced]_vars

(* ---- claims ---- *)
\* The submit() call of item i takes its step.
SubmitStep(i) ==
  caller[i].st = "none" /\ caller'[i].st # "none"

\* C1: the number of pending items never exceeds max_queue_size, and a submit
\* made while max_queue_size items are pending fails in that very step with
\* QueueFull instead of leaving its caller suspended.
C1_QueueBounded ==
  /\ [](Len(queue) <= max_queue_size)
  /\ [][\A i \in ItemIds :
          (SubmitStep(i) /\ Len(queue) = max_queue_size)
            => (caller'[i].st = "queue_full" /\ Len(queue') = max_queue_size)]_vars

C1_Witness ==
  /\ Len(queue) = max_queue_size
  /\ \E i \in ItemIds : caller[i].st = "queue_full"

\* The workers that are executing the work of item i.
Executing(i) ==
  {t \in TaskIds : task[t].pc = "working" /\ task[t].item = i}

\* C2: under any interleaving of submitters and workers the work of an item is
\* started at most once, by at most one worker, and a result slot that has been
\* resolved (with a value, an error or a cancellation) never changes again.
C2_AtMostOnce ==
  /\ [](\A i \in ItemIds :
          /\ Count(startOrder, i) <= 1
          /\ Cardinality(Executing(i)) <= 1)
  /\ [][\A i \in ItemIds : Done(future[i]) => future'[i] = future[i]]_vars

\* The work of an item whose submitter had been cancelled has raised, and the
\* slot was left alone, while a second worker resolved another item.
C2_Witness ==
  \E i, j \in ItemIds :
    /\ future[i].st = "cancelled"
    /\ Count(startOrder, i) = 1
    /\ Executing(i) = {}
    /\ total_errors >= 1
    /\ future[j].st = "result"
    /\ max_concurrent = 2

\* C3: on a running queue with max_concurrent workers, a submitter that has
\* returned holds the marker of its own item, and a slot resolved with a value
\* holds the value of its own item's work, which has run exactly once.
C3_OwnResult ==
  \A i \in ItemIds :
    /\ future[i].st = "result"
         => (future[i].val = Marker(i) /\ Count(startOrder, i) = 1)
    /\ caller[i].st = "returned"
         => (caller[i].val = Marker(i) /\ future[i].st = "result")

\* All the items were accepted, were in the queue or in flight together with two
\* workers, and every submitter has returned.
C3_Witness ==
  /\ max_concurrent = 2
  /\ \A i \in 1..MaxItems : caller[i].st = "returned"
  /\ total_processed = MaxItems

\* The result slot of item i is resolved with an error in this step.
ErrStep(i) ==
  future[i].st = "pending" /\ future'[i].st = "exception"

\* C4: when the work of an item raises, the slot of that item and of no other
\* gets that error, total_errors grows by one, the worker goes back to waiting
\* for items, and the other items, queued or in flight, and their submitters are
\* left as they were; a submitter that raises does so with its own item's error.
C4_ErrorIsolated ==
  /\ [](\A i \in ItemIds :
          /\ future[i].st = "exception" => future[i].val = Marker(i)
          /\ caller[i].st = "raised"
               => (caller[i].val = Marker(i) /\ future[i].st = "exception"))
  /\ [][\A i \in ItemIds :
          ErrStep(i) =>
            /\ total_errors' = total_errors + 1
            /\ total_processed' = total_processed
            /\ \A t \in Executing(i) : task'[t].pc = "waiting"
            /\ \A t \in TaskIds \ Executing(i) : task'[t] = task[t]
            /\ \A j \in ItemIds \ {i} : future'[j] = future[j]
            /\ caller' = caller
            /\ queue' = queue
            /\ workers' = workers]_vars

\* The first item failed and its submitter got the error; the one worker then
\* ran the next item, whose submitter returned.
C4_Witness ==
  /\ max_concurrent = 1
  /\ caller[1].st = "raised"
  /\ caller[2].st = "returned"
  /\ total_errors = 1
  /\ total_processed >= 1

\* C5: 0 <= active_tasks <= max_concurrent, and active_tasks is the number of
\* workers that are executing the work of an item.
C5_ActiveBounded ==
  /\ active_tasks >= 0
  /\ active_tasks <= max_concurrent
  /\ active_tasks = Cardinality({t \in TaskIds : task[t].pc = "working"})

\* The items in the queue.
Pending ==
  {queue[k] : k \in 1..Len(queue)}

\* C6: with max_queue_size=2 and max_concurrent=1, while the worker is busy
\* with an item, a submit that finds fewer than 2 items pending is accepted and
\* a submit that finds 2 items pending raises QueueFull in its own step, the
\* busy worker and the pending items being as they were.
C6_Backpressure ==
  /\ [](max_concurrent = 1 /\ max_queue_size = 2)
  /\ [][\A i \in ItemIds :
          (SubmitStep(i) /\ \E t \in TaskIds : task[t].pc = "working") =>
            IF Len(queue) < 2
              THEN /\ caller'[i].st = "waiting"
                   /\ queue' = Append(queue, i)
              ELSE /\ caller'[i].st = "queue_full"
                   /\ queue' = queue
                   /\ task' = task]_vars

\* The first item is still being executed, the second and third are pending,
\* their three submitters wait, and the fourth has been rejected.
C6_Witness ==
  /\ \E t \in TaskIds : task[t].pc = "working" /\ task[t].item = 1
  /\ queue = <<2, 3>>
  /\ \A i \in 1..3 : caller[i].st = "waiting" /\ future[i].st = "pending"
  /\ caller[4].st = "queue_full"

\* C7: a submit either queues its item or raises QueueFull; a rejected call
\* leaves the pending items, the workers and the three counters as they were,
\* and the work of a rejected item is never started.
C7_RejectionHasNoEffect ==
  /\ [](\A i \in ItemIds :
          caller[i].st = "queue_full" =>
            /\ Count(startOrder, i) = 0
            /\ i \notin Pending
            /\ Executing(i) = {}
            /\ future[i].st = "none")
  /\ [][\A i \in ItemIds :
          SubmitStep(i) =>
            \/ /\ caller'[i].st = "waiting"
               /\ queue' = Append(queue, i)
            \/ /\ caller'[i].st = "queue_full"
               /\ UNCHANGED <<queue, active_tasks, total_processed, total_errors,
                              task, future>>]_vars

\* A submit was rejected while another item was pending, and the items
\* accepted before it have since been processed.
C7_Witness ==
  \E i \in ItemIds :
    /\ caller[i].st = "queue_full"
    /\ \A j \in 1..(i - 1) : caller[j].st = "returned"
    /\ total_processed = i - 1
    /\ i > 1

\* The position of item x in the order of the starts (0 when not started).
StartIndex(x) ==
  IF \E k \in 1..Len(startOrder) : startOrder[k] = x
    THEN CHOOSE k \in 1..Len(startOrder) : startOrder[k] = x
    ELSE 0

\* Item i was accepted by submit (items are numbered in the order of the calls).
Accepted(i) ==
  future[i].st # "none"

\* C8: if the submit of item a was accepted before that of item b and the work
\* of b has been started, then the work of a was started before it; the
\* pending items are queued in the order of their admission.
C8_Fifo ==
  /\ \A a, b \in ItemIds :
       (a < b /\ Accepted(a) /\ Accepted(b) /\ StartIndex(b) > 0)
         => (StartIndex(a) > 0 /\ StartIndex(a) < StartIndex(b))
  /\ \A k, l \in 1..Len(queue) : k < l => queue[k] < queue[l]

\* Two workers: the items were started in the order of admission, and a later
\* item has been completed while an earlier one is still being executed.
C8_Witness ==
  /\ max_concurrent = 2
  /\ Len(startOrder) >= 2
  /\ \E a, b \in ItemIds :
       a < b /\ Executing(a) # {} /\ StartIndex(b) > 0 /\ Done(future[b])

\* No stop() has had an effect yet: none is in progress, and no worker has been
\* cancelled or has finished.
NeverStopped ==
  /\ stopping.pc = "idle"
  /\ \A t \in TaskIds : task[t].pc # "done" /\ ~task[t].cancelReq

\* C9: a start() on a running queue changes nothing, so that as long as no
\* stop() has intervened a running queue has exactly max_concurrent workers.
C9_StartIdempotent ==
  /\ [][(starts' # starts /\ running) =>
          UNCHANGED <<nonQueueVars, max_concurrent, max_queue_size, queue, running, workers,
                      active_tasks, total_processed, total_errors, task, future,
                      caller, stopping, startOrder>>]_vars
  /\ []((running /\ NeverStopped) =>
          (Cardinality(workers) = max_concurrent /\ workers = Created))

\* start() has been called at least twice in a row (the number of calls is
\* even and the queue is running) and max_concurrent workers exist.
C9_Witness ==
  /\ running
  /\ NeverStopped
  /\ starts = 0
  /\ Cardinality(workers) = max_concurrent
  /\ \E t \in workers : task[t].pc = "working"

\* C10: once stop() has been called, every submitter that is still waiting
\* is eventually released (with a result or an error).
C10_StopReleasesCallers ==
  \A i \in ItemIds :
    (stopping.pc = "gather" /\ caller[i].st = "waiting") ~> (caller[i].st # "waiting")

\* C11: a queue-full rejection of a chat request reaches the HTTP caller as a
\* condition distinct from a failure of the inference work: the two responses
\* differ in status or in error type, not only in the message.
C11_RejectionDistinct ==
  \A i, j \in ItemIds :
    ( /\ caller[i].st = "queue_full"
      /\ caller[j].st = "raised"
      /\ http[i] # NoResponse
      /\ http[j] # NoResponse )
      => (http[i].status # http[j].status \/ http[i].exc # http[j].exc)

\* C12: every generation call on the LLM made for a chat request, streaming or
\* not, is run by a queue worker, so the calls in progress never exceed
\* max_concurrent.
C12_GenerationsBounded ==
  /\ \A s \in StreamIds : stream[s] # "generating"
  /\ GenerationsInProgress <= max_concurrent

\* The step is the call get(k), set(k, v), invalidate(k); last' names the call
\* that a step made, so the call's action is looked at for that call alone.
GetStep(k) ==
  last'.op = "get" /\ last'.key = k /\ Get(k)

SetStep(k, v) ==
  last'.op = "set" /\ last'.key = k /\ last'.val = v /\ Set(k, v)

InvalidateStep(k) ==
  last'.op = "invalidate" /\ last'.key = k /\ Invalidate(k)

\* C13: after any sequence of get, set, invalidate, clear and cleanup_expired
\* calls the number of stored entries never exceeds max_size.
C13_SizeBounded ==
  Len(cache) <= max_size

\* A set has just filled the cache to its capacity.
C13_Witness ==
  /\ max_size >= 1
  /\ Len(cache) = max_size
  /\ last.op = "set"
  /\ last.flag
  /\ now > cache[1].timestamp

\* C14: in a cache of more than one entry that holds max_size distinct keys,
\* when the oldest-inserted key r is read by a hitting get and then a new key k
\* is set, exactly max_size entries remain, the one key evicted is the least
\* recently accessed (by get hit or set), and r is still stored.
C14_EvictsLeastRecentlyAccessed ==
  [][\A r, k \in LruKeys :
       ( /\ max_size >= 2
         /\ Len(cache) = max_size
         /\ last.op = "get" /\ last.flag /\ last.key = r
         /\ insertOrder[1] = r
         /\ ~Stored(k)
         /\ Set(k, 1) )
         => /\ Len(cache') = max_size
            /\ KeysOf(cache) \ KeysOf(cache') = {accessOrder[1]}
            /\ r \in KeysOf(cache')]_vars

\* C15: after set(k, v) has returned, whether it inserted or overwrote, k is the
\* most recently used entry: the last of the stored keys that inserts will evict.
C15_SetIsAccess ==
  [][\A k \in LruKeys :
       (Set(k, 1) /\ last'.flag) => cache'[Len(cache')].key = k]_vars

\* C16: set(key, value) never raises, whatever the contents and max_size: after
\* it key is stored with value, and an immediate get(key) would return value.
C16_SetSucceeds ==
  [][\A k \in Keys : \A v \in Values :
       SetStep(k, v) =>
         /\ last'.flag
         /\ k \in KeysOf(cache')
         /\ cache'[IndexOf(cache', k)].value = v
         /\ now - cache'[IndexOf(cache', k)].timestamp <= ttl_seconds]_vars

\* C17: get returns the stored value of a key as long as the age of its entry is
\* at most ttl and reports it absent when the age exceeds ttl; the age counts from
\* the last set of the key: a hitting get leaves the timestamp alone, a set makes
\* it the time of the call, and no call on another key changes it.
C17_TtlVisibility ==
  [][\A k \in Keys :
       /\ (GetStep(k) /\ Stored(k)) =>
            IF now - Entry(k).timestamp <= ttl_seconds
              THEN /\ last'.flag
                   /\ last'.val = Entry(k).value
                   /\ k \in KeysOf(cache')
                   /\ cache'[IndexOf(cache', k)].timestamp = Entry(k).timestamp
              ELSE /\ ~last'.flag
                   /\ last'.val = None
       /\ \A v \in Values :
            (SetStep(k, v) /\ last'.flag) => cache'[IndexOf(cache', k)].timestamp = now
       /\ ( /\ Stored(k)
            /\ k \in KeysOf(cache')
            /\ \A v \in Values : ~SetStep(k, v) )
            => cache'[IndexOf(cache', k)] = Entry(k)]_vars

\* A get has just returned a value whose age is exactly ttl, after time has passed.
C17_Witness ==
  /\ last.op = "get"
  /\ last.flag
  /\ Stored(last.key)
  /\ now - Entry(last.key).timestamp = ttl_seconds
  /\ last.val = Entry(last.key).value

\* C18: the effect of get(key) on the stored entries: a hit moves key to the
\* most-recently-used end and changes nothing else; an expired entry is removed
\* and none is returned; for an absent key no entry and no ordering changes.
C18_GetEffects ==
  [][\A k \in Keys :
       GetStep(k) =>
         /\ IF Stored(k) /\ ~Expired(Entry(k))
              THEN /\ cache' = Append(Without(cache, k), Entry(k))
                   /\ last'.val = Entry(k).value
              ELSE /\ cache' = Without(cache, k)
                   /\ last'.val = None
         /\ ~Stored(k) => cache' = cache]_vars

\* A hitting get has just moved an entry behind a more recently written one.
C18_Witness ==
  /\ last.op = "get"
  /\ last.flag
  /\ Len(cache) = 2
  /\ cache[2].key = last.key
  /\ cache[2].timestamp < cache[1].timestamp

\* What a get does to the counters: one of them goes up by one, hits if and only
\* if the get returns a live value; and no other call changes them.
GetAccounting ==
  /\ \A k \in Keys :
       GetStep(k) =>
         IF last'.flag
           THEN hits' = hits + 1 /\ misses' = misses
           ELSE misses' = misses + 1 /\ hits' = hits
  /\ (\A k \in Keys : ~GetStep(k)) => UNCHANGED <<hits, misses>>

\* C19 as stated: hit/miss accounting, and get_stats reports the hit rate
\* H/N*100 exactly (0 when N = 0).
C19_HitRateExact ==
  /\ [][GetAccounting]_vars
  /\ [](get_stats.hits = hits /\ get_stats.misses = misses)
  /\ [](get_stats.hit_rate_percent_x100 * (hits + misses) = hits * 10000)

\* C19, amended: hit/miss accounting, and get_stats reports the hit rate
\* H/N*100 rounded to two decimals (0 when N = 0).
C19_HitRateRounded ==
  /\ [][GetAccounting]_vars
  /\ [](get_stats.hits = hits /\ get_stats.misses = misses)
  /\ [](LET N == hits + misses
            d == get_stats.hit_rate_percent_x100 * N - hits * 10000
        IN /\ 2 * d <= N
           /\ 2 * d >= 0 - N
           /\ N = 0 => get_stats.hit_rate_percent_x100 = 0)

\* Three gets of which one hit: the rate is one third.
C19_Witness ==
  /\ hits = 1
  /\ misses = 2
  /\ get_stats.hit_rate_percent_x100 = 3333

\* C20: invalidate(key) returns true iff key was stored; afterwards key is not
\* stored, and the other entries, their order and the counters are unchanged.
C20_InvalidateEffects ==
  [][\A k \in Keys :
       InvalidateStep(k) =>
         /\ last'.flag = Stored(k)
         /\ k \notin KeysOf(cache')
         /\ cache' = SelectSeq(cache, LAMBDA e : e.key # k)
         /\ UNCHANGED <<hits, misses>>]_vars

\* An invalidate has just removed one of two entries.
C20_Witness ==
  /\ last.op = "invalidate"
  /\ last.flag
  /\ Len(cache) = 1
  /\ cache[1].key # last.key

\* A step that is a cleanup_expired call.
CleanupStep ==
  last'.op = "cleanup_expired" /\ CleanupExpired

\* C21: cleanup_expired removes exactly the entries whose age exceeds the ttl
\* and returns their number: no stored entry is expired afterwards, the live
\* entries are kept as they were and in their order, and hits and misses are
\* not changed.
C21_CleanupEffects ==
  [][CleanupStep =>
       /\ cache' = SelectSeq(cache, LAMBDA e : now - e.timestamp <= ttl_seconds)
       /\ last'.val = Cardinality({n \in 1..Len(cache) :
                                     now - cache[n].timestamp > ttl_seconds})
       /\ \A n \in 1..Len(cache') : now' - cache'[n].timestamp <= ttl_seconds
       /\ hits' = hits
       /\ misses' = misses]_vars

\* A cleanup that removed an expired entry and kept a live one, after a get.
C21_Witness ==
  /\ last.op = "cleanup_expired"
  /\ last.val >= 1
  /\ Len(cache) >= 1
  /\ hits + misses >= 1

\* C22: cleanup_expired is space reclamation only: every get returns what it
\* returns from a cache given the same get and set calls at the same clock
\* readings and no cleanup_expired.
C22_CleanupInvisible ==
  last.op = "get" => last.val = refLast

\* A step that is a document mutation that modified the vector store.
MutationStep ==
  \/ /\ last'.op = "add_documents"
     /\ last'.flag
     /\ \E s \in Sources : AddDocuments(s, TRUE)
  \/ /\ last'.op = "delete_by_source"
     /\ last'.flag
     /\ \E s \in Sources : DeleteBySource(s)

\* A step that is a similarity search for q.
SearchStep(q) ==
  /\ last'.op = "search"
  /\ last'.key = q
  /\ SimilaritySearchWithScore(q)

\* C23: a document mutation that modified the vector store leaves the search
\* cache empty, so every cached result is the result of the store as it is,
\* and every search returns the result of the store as it is.
C23_NoStaleSearch ==
  /\ [][MutationStep => cache' = <<>>]_vars
  /\ [](\A n \in 1..Len(cache) : cache[n].value = Result(store))
  /\ [][\A q \in Keys : SearchStep(q) => last'.val = Result(store)]_vars

\* A search that went to the store after a mutation, a search having been
\* served from the cache before.
C23_Witness ==
  /\ last.op = "search"
  /\ ~last.flag
  /\ store # {}
  /\ hits >= 1
  /\ last.val = Result(store)

\* A step that is a check(c, cost) call.
CheckStep(c, cost) ==
  /\ reply'.op = "check"
  /\ reply'.key = c
  /\ Check(c, cost)

\* C24: the tokens of every bucket are between 0 and max_tokens, and the only
\* step after which a bucket holds fewer tokens is a successful check of its
\* client.
C24_TokensBounded ==
  /\ [](\A c \in Clients :
          buckets[c].present =>
            /\ 0 <= buckets[c].tokens
            /\ buckets[c].tokens <= TokenUnit * max_tokens)
  /\ [][\A c \in Clients :
          (/\ buckets[c].present
           /\ buckets'[c].present
           /\ buckets'[c].tokens < buckets[c].tokens)
          => /\ reply'.op = "check"
             /\ reply'.key = c
             /\ reply'.ok]_vars

\* One bucket has been emptied and another has been refilled up to the cap,
\* after time has passed.
C24_Witness ==
  /\ max_tokens >= 1
  /\ refill_rate >= 1
  /\ now >= 1
  /\ \E c \in Clients : \E d \in Clients :
       /\ buckets[c].present
       /\ buckets[c].tokens = 0
       /\ buckets[d].present
       /\ buckets[d].tokens = TokenUnit * max_tokens
       /\ buckets[d].last_refill > buckets[c].last_refill
       /\ reply.op = "get_remaining"
       /\ reply.key = d

\* C25: check refills the bucket to min(max_tokens, tokens + elapsed *
\* refill_rate), returns true iff the refilled tokens are at least the cost,
\* debits exactly the cost when it returns true and leaves the refilled tokens
\* when it returns false.
C25_CheckContract ==
  [][\A c \in Clients : \A cost \in 1..MaxCost :
       CheckStep(c, cost) =>
         LET tokens == IF buckets[c].present
                         THEN buckets[c].tokens
                         ELSE TokenUnit * max_tokens
             elapsed == IF buckets[c].present
                          THEN now - buckets[c].last_refill
                          ELSE 0
             refilled == Min(TokenUnit * max_tokens,
                             tokens + elapsed * refill_rate)
         IN /\ reply'.ok = (refilled >= TokenUnit * cost)
            /\ buckets'[c].present
            /\ buckets'[c].tokens = IF refilled >= TokenUnit * cost
                                      THEN refilled - TokenUnit * cost
                                      ELSE refilled]_vars

\* A check that failed on tokens the refill had added, and left them.
C25_Witness ==
  /\ reply.op = "check"
  /\ ~reply.ok
  /\ now >= 1
  /\ buckets[reply.key].present
  /\ buckets[reply.key].last_refill = now
  /\ buckets[reply.key].tokens >= 1

\* C26: with max_tokens=10 and refill_rate=0.5 the first ten cost-1 checks of a
\* new client made at one clock reading succeed, the eleventh at that reading
\* fails, and a later check succeeds only when at least 2 seconds have passed
\* since the bucket was emptied.
C26_BurstThenWait ==
  \A n \in 1..Len(calls) :
    /\ (n <= ChatMaxTokens /\ calls[n].at = calls[1].at) => calls[n].ok
    /\ (n = ChatMaxTokens + 1 /\ calls[n].at = calls[1].at) => ~calls[n].ok
    /\ (/\ n > ChatMaxTokens
        /\ calls[ChatMaxTokens].at = calls[1].at
        /\ calls[n].ok)
       => calls[n].at - calls[1].at >= 2

\* Ten checks at once, a failed eleventh a second later, and a twelfth that
\* succeeds.
C26_Witness ==
  /\ Len(calls) >= ChatMaxTokens + 2
  /\ calls[ChatMaxTokens].at = calls[1].at
  /\ ~calls[ChatMaxTokens + 1].ok
  /\ calls[ChatMaxTokens + 1].at > calls[1].at
  /\ calls[ChatMaxTokens + 2].ok

\* A step that is a get_retry_after(c, cost) call.
RetryStep(c, cost) ==
  /\ reply'.op = "get_retry_after"
  /\ reply'.key = c
  /\ GetRetryAfter(c, cost)

\* C27: get_retry_after returns max(0, (cost - t) / refill_rate), t being the
\* tokens of the bucket after a refill for the time since its last refill
\* (for a refill_rate above 0).
C27_RetryAfterRefills ==
  [][\A c \in Clients : \A cost \in 1..MaxCost :
       (RetryStep(c, cost) /\ refill_rate > 0) =>
         LET tokens == IF buckets[c].present
                         THEN buckets[c].tokens
                         ELSE TokenUnit * max_tokens
             elapsed == IF buckets[c].present
                          THEN now - buckets[c].last_refill
                          ELSE 0
             t == Min(TokenUnit * max_tokens, tokens + elapsed * refill_rate)
         IN /\ ~reply'.raised
            /\ IF TokenUnit * cost - t <= 0
                 THEN reply'.num = 0
                 ELSE reply'.num * refill_rate
                        = (TokenUnit * cost - t) * reply'.den]_vars

\* C28: with max_tokens=1 and refill_rate=0, get_retry_after returns a value
\* and does not fail with a division by zero.
C28_ZeroRateRetry ==
  (/\ max_tokens = 1
   /\ refill_rate = 0
   /\ reply.op = "get_retry_after")
  => ~reply.raised

\* C29: a check, get_remaining or get_retry_after for one client key changes
\* the bucket of no other key (a bucket changes only in a call for its own key
\* or in cleanup), and the first check of a key succeeds when its cost is
\* within max_tokens, whatever the other keys have used.
C29_BucketsIndependent ==
  /\ [][\A b \in Clients :
          buckets'[b] # buckets[b] => reply'.op = "cleanup" \/ reply'.key = b]_vars
  /\ [][\A b \in Clients : \A cost \in 1..MaxCost :
          (~buckets[b].present /\ cost <= max_tokens /\ CheckStep(b, cost))
          => reply'.ok]_vars

\* A check of one key succeeded while the bucket of another key is exhausted.
C29_Witness ==
  /\ reply.op = "check"
  /\ reply.ok
  /\ \E a \in Clients \ {reply.key} :
       /\ buckets[a].present
       /\ buckets[a].tokens < TokenUnit
       /\ buckets[a].last_refill = now

\* C30: refill, comparison and debit of a check are one critical section: a
\* thread is inside only while it holds the lock, the tokens it debits are the
\* tokens it compared, and no bucket goes below 0.
C30_CheckAtomic ==
  /\ \A t \in Threads : InSection(t) => lock = t
  /\ \A t \in Threads :
       thread[t].pc = "compared" =>
         /\ buckets[thread[t].key].tokens = thread[t].seen
         /\ thread[t].result = (thread[t].seen >= TokenUnit * thread[t].cost)
  /\ \A t \in Threads :
       thread[t].pc = "leaving" =>
         buckets[thread[t].key].tokens =
           thread[t].seen - (IF thread[t].result
                               THEN TokenUnit * thread[t].cost
                               ELSE 0)
  /\ \A c \in Clients : buckets[c].present => buckets[c].tokens >= 0

\* Two concurrent cost-1 checks of one key whose bucket holds exactly one
\* token: one has compared and the other waits for the lock.
C30_Witness ==
  \E t \in Threads : \E u \in Threads \ {t} :
    /\ thread[t].pc = "compared"
    /\ thread[t].seen = TokenUnit
    /\ thread[t].cost = 1
    /\ thread[u].pc = "waiting"
    /\ thread[u].key = thread[t].key
    /\ thread[u].cost = 1

\* C31: the rate-limiter check of a chat request comes before every call made
\* for it: a request answered 429 carries a Retry-After header, no call on
\* the session service, the vector store or the response cache was made for
\* it and nothing was submitted for it; calls and submissions are those of
\* requests whose check passed.
C31_CheckComesFirst ==
  /\ \A i \in ItemIds :
       /\ (http[i].status = 429) = (req[i].pc = "rejected")
       /\ req[i].pc = "rejected" =>
            /\ req[i].header.present
            /\ req[i].did = {}
            /\ req[i].item = 0
       /\ (req[i].did # {} \/ req[i].item # 0) =>
            req[i].pc \in {"admitted", "submitting", "responded"}
  /\ \A n \in ItemIds :
       caller[n].st # "none" =>
         \E i \in ItemIds : req[i].item = n /\ req[i].pc \in {"submitting", "responded"}

\* One request was refused with 429 on each route, and a request whose check
\* passed was answered from the queue.
C31_Witness ==
  \E i, j, k \in ItemIds :
    /\ http[i].status = 429 /\ req[i].route = "chat"
    /\ http[j].status = 429 /\ req[j].route = "stream"
    /\ http[k].status = 200 /\ "cache_set" \in req[k].did

\* C38: when a request is answered 429 and the next request of the same
\* client key arrives the Retry-After seconds later or more, that request
\* passes the check.
C38_RetryAfterSuffices ==
  \A i, j \in ItemIds :
    (/\ j < i
     /\ req[j].pc = "rejected"
     /\ req[i].pc # "none"
     /\ req[i].client = req[j].client
     /\ \A k \in ItemIds : (j < k /\ k < i) => req[k].client # req[j].client
     /\ req[i].at >= req[j].at + req[j].header.seconds * TicksPerSecond)
      => req[i].pc # "rejected"

\* A step that is a cleanup() call on the limiter.
SweepStep ==
  reply'.op = "cleanup" /\ Cleanup

\* C32: cleanup removes exactly the buckets whose last refill is more than
\* 10 x window_seconds ago and returns their number; every other bucket keeps
\* its tokens and its last-refill time.
C32_CleanupRemovesStale ==
  [][SweepStep =>
       /\ \A c \in Clients :
            IF buckets[c].present
               /\ now - buckets[c].last_refill > 10 * window_seconds
              THEN ~buckets'[c].present
              ELSE buckets'[c] = buckets[c]
       /\ reply'.num = Cardinality({c \in Clients :
                           /\ buckets[c].present
                           /\ now - buckets[c].last_refill > 10 * window_seconds})]_vars

\* A cleanup that removed a stale bucket and kept a fresh one.
C32_Witness ==
  /\ reply.op = "cleanup"
  /\ reply.num >= 1
  /\ \E c \in Clients : buckets[c].present

\* C33: get_retry_after and get_remaining calls put between the checks of a
\* limiter change the outcome of no check: each check returns what it returns
\* from a limiter given the checks alone at the same clock readings.
C33_AdvisoryCallsInvisible ==
  reply.op = "check" => reply.ok = refOk

\* After a check that emptied the bucket, get_remaining has refilled the
\* bucket of the first limiter part of the way to the cost of a check, and the
\* second limiter has not been called since.
C33_Witness ==
  /\ reply.op = "get_remaining"
  /\ reply.key = ContendedKey
  /\ refBuckets[ContendedKey].present
  /\ buckets[ContendedKey].last_refill > refBuckets[ContendedKey].last_refill
  /\ buckets[ContendedKey].tokens > refBuckets[ContendedKey].tokens
  /\ buckets[ContendedKey].tokens < TokenUnit

\* C39: cleanup calls put between the checks of a limiter change the outcome
\* of no check, whatever the configuration.
C39_CleanupInvisible ==
  [][reply'.op = "check" => reply'.ok = refOk']_vars

\* The items whose execution by a worker has ended.
Ended ==
  {i \in ItemIds : /\ \E n \in 1..Len(startOrder) : startOrder[n] = i
                    /\ \A t \in TaskIds : ~(task[t].pc = "working" /\ task[t].item = i)}

\* C34: on a started queue that is not stopped, with works that terminate and
\* workers scheduled fairly, every accepted submit eventually returns the
\* value of its work or raises the error of its work.
C34_AcceptedSubmitReturns ==
  \A i \in ItemIds :
    (caller[i].st = "waiting") ~>
      (caller[i].st \in {"returned", "raised"} /\ caller[i].val = Marker(i))

\* One accepted submit has returned its value and another has raised its error.
C34_Witness ==
  \E i, j \in ItemIds :
    /\ caller[i] = [st |-> "returned", val |-> Marker(i)]
    /\ caller[j] = [st |-> "raised", val |-> Marker(j)]

\* C35: when the future of an item is already done as its work finishes, the
\* future is left as it is, the worker stays in its loop waiting for the next
\* item, and active_tasks goes down by one.
C35_DoneFutureIsSkipped ==
  [][\A t \in TaskIds :
       (/\ task[t].pc = "working"
        /\ Done(future[task[t].item])
        /\ task'[t] # task[t]) =>
         /\ future' = future
         /\ task'[t].pc = "waiting"
         /\ active_tasks' = active_tasks - 1]_vars

\* The single worker finished an item whose caller had been cancelled and then
\* resolved the future of a later item.
C35_Witness ==
  /\ max_concurrent = 1
  /\ \E n, m \in 1..Len(startOrder) :
       /\ n < m
       /\ future[startOrder[n]].st = "cancelled"
       /\ startOrder[n] \in Ended
       /\ future[startOrder[m]].st = "result"

\* The worker tasks whose loop is running and has no cancellation pending.
LiveWorkers ==
  {t \in TaskIds : task[t].pc \in {"new", "waiting", "working"} /\ ~task[t].cancelReq}

\* C36: whatever the interleaving of start() and stop(), at most
\* max_concurrent worker loops are live and every live worker is in the
\* tracked worker list.
C36_WorkersTracked ==
  /\ Cardinality(LiveWorkers) <= max_concurrent
  /\ LiveWorkers \subseteq workers

\* C37: total_processed + total_errors is the number of items whose execution
\* has ended, and total_processed is the number of items whose future holds a
\* result.
C37_CountersCoverEnded ==
  /\ total_processed + total_errors = Cardinality(Ended)
  /\ total_processed = Cardinality({i \in ItemIds : future[i].st = "result"})

\* C40: set(k, v) for a key that is stored removes no other key, also at
\* max_size entries.
C40_OverwriteKeepsOthers ==
  [][\A k \in Keys : \A v \in Values :
       (k \in KeysOf(cache) /\ SetStep(k, v)) =>
         \A j \in KeysOf(cache) \ {k} : j \in KeysOf(cache')]_vars

TypeOK ==
  /\ max_concurrent \in 1..MaxConcurrent
  /\ max_queue_size \in 1..MaxQueueSize
  /\ running \in BOOLEAN
  /\ workers \subseteq TaskIds
  /\ active_tasks \in Nat
  /\ total_processed \in Nat
  /\ total_errors \in Nat
  /\ \A t \in TaskIds :
       /\ task[t].pc \in {"free", "new", "waiting", "working", "done"}
       /\ task[t].item \in ItemIds \cup {0}
  /\ \A i \in ItemIds :
       /\ future[i].st \in {"none", "pending", "result", "exception", "cancelled"}
       /\ caller[i].st \in {"none", "waiting", "queue_full", "returned", "raised", "cancelled"}
       /\ http[i].status \in {0, 200, 429, 500, 503}
  /\ \A s \in StreamIds : stream[s] \in {"none", "generating", "done"}
  /\ max_size \in 0..Max(MaxCacheSize, MaxLruSize)
  /\ ttl_seconds \in 1..MaxTtl
  /\ now \in 0..Max(Max(MaxClock, MaxBurstClock), Late)
  /\ hits \in 0..MaxGets
  /\ misses \in 0..MaxGets
  /\ \A n \in 1..Len(cache) :
       /\ cache[n].key \in Keys \cup LruKeys
       /\ cache[n].value \in Values \cup {Result(S) : S \in SUBSET Sources}
       /\ cache[n].timestamp \in 0..now
  /\ \A n1, n2 \in 1..Len(cache) : cache[n1].key = cache[n2].key => n1 = n2
  /\ last.op \in {"none", "get", "set", "invalidate", "clear", "cleanup_expired",
                 "add_documents", "delete_by_source", "search"}
  /\ \A n \in 1..Len(ref) : ref[n].key \in Keys
  /\ refLast \in Values \cup {None}
  /\ store \subseteq Sources
  /\ max_tokens \in 0..Max(MaxTokens, ChatMaxTokens)
  /\ refill_rate \in 0..MaxRate
  /\ window_seconds \in {1, ChatWindowSeconds}
  /\ \A c \in Clients :
       /\ buckets[c].present \in BOOLEAN
       /\ buckets[c].tokens \in 0..(TokenUnit * max_tokens)
       /\ buckets[c].last_refill \in 0..now
  /\ reply.op \in {"none", "check", "get_retry_after", "get_remaining", "cleanup"}
  /\ reply.key \in Clients \cup {0}
  /\ lock \in Threads \cup {0}
  /\ \A t \in Threads :
       /\ thread[t].pc \in {"out", "waiting", "locked", "refilled", "compared",
                            "leaving"}
       /\ thread[t].key \in Clients \cup {0}
  /\ \A n \in 1..Len(calls) : calls[n].at \in 0..now
  /\ refOk \in BOOLEAN
  /\ answered \in BOOLEAN
  /\ \A i \in ItemIds :
       /\ req[i].pc \in {"none", "rejected", "failed", "admitted", "submitting",
                         "responded"}
       /\ req[i].client \in 0..MaxClients
       /\ req[i].route \in {"none", "chat", "stream"}
       /\ req[i].at \in 0..now
       /\ req[i].header.present \in BOOLEAN
       /\ req[i].header.seconds \in 0..(TokenUnit * TicksPerSecond)
       /\ req[i].item \in 0..MaxItems
       /\ req[i].did \subseteq {"session", "search", "cache_get", "cache_set",
                                 "history"}
  /\ \A c \in Clients :
       \/ refBuckets[c] = NoBucket
       \/ /\ refBuckets[c].present
          /\ refBuckets[c].tokens \in 0..Capacity
          /\ refBuckets[c].last_refill \in 0..now
====
